---- MODULE Spec2Model ----
(***************************************************************************)
(* The IntCode virtual machine (src/src/int_code) and its facade           *)
(* IntCodeComputer, as a state machine.                                    *)
(*                                                                         *)
(* An i64 is kept as two signed 32-bit halves: the record [hi, lo] stands  *)
(* for hi * 2^32 + lo with lo in -2^31 .. 2^31-1.  Every i64 has exactly   *)
(* one such form, and the low 32 bits of the value (the cast `as u32`) are *)
(* lo when lo >= 0 and lo + 2^32 otherwise.                                *)
(***************************************************************************)
EXTENDS Integers, Sequences, FiniteSets, TLC

VARIABLES
    init_memory,   \* IntCodeComputer.init_memory: the program image
    memory,        \* State.memory: Vec<i64>
    pointer,       \* State.pointer: Pointer(usize)
    running,       \* State.running: RunningState
    input_buffer,  \* State.input_buffer: VecDeque<i64>
    peeked,        \* IntCodeComputer.peeked: VecDeque<i64>
    call,          \* the facade call in progress and its locals
    ret,           \* what the last completed facade call returned
    pushed,        \* history: every value pushed since creation / reset
    written,       \* history: the value each completed INPUT stored
    produced,      \* history: every value the program has output
    pulled,        \* history: values receive_next handed out, unpulled ones removed
    stopped,       \* history: "no", "halt" (opcode 99) or "error"
    poked,         \* history: manipulate_memory was called since creation / reset
    data,          \* ComputerFactory.data: the parsed image
    other,         \* a second IntCodeComputer built from the same factory
    amp,           \* Amplifier::run / run_recursive: position, phase_values, value
    computers,     \* Amplifier::run_recursive: the Vec of computers
    droid,         \* SpringDroid::run_instructions: its fields, position and locals
    brain          \* AsciiBrain (Day::part2 of day17): its position and locals

vars == <<init_memory, memory, pointer, running, input_buffer, peeked,
          call, ret, pushed, written, produced, pulled, stopped, poked,
          data, other, amp, computers, droid, brain>>

\* what no method of the one IntCodeComputer touches
outside == <<data, other, amp, computers, droid, brain>>

\* the drivers of day21 and day17, which the Amplifier and the two-computer
\* caller have nothing of
scripts == <<droid, brain>>

vm == <<memory, pointer, running, input_buffer>>

(***************************************************************************)
(* Bounds of the model.                                                    *)
(***************************************************************************)
\* longest list of program segments (outputs / echoes) in a generated image
MaxSeg == 2
\* most values pushed to one VM between two resets
MaxPush == 2

(***************************************************************************)
(* 64-bit values.                                                          *)
(***************************************************************************)
MaxI32 == 2147483647
MinI32 == -MaxI32 - 1

W(h, l) == [hi |-> h, lo |-> l]
I(n) == W(0, n)
Zero == I(0)

is_negative(v) == v.hi < 0 \/ (v.hi = 0 /\ v.lo < 0)
is_positive(v) == v.hi > 0 \/ (v.hi = 0 /\ v.lo > 0)
\* op1 < op2 with the operands exchanged
Less_reversed(a, b) == b.hi < a.hi \/ (b.hi = a.hi /\ b.lo < a.lo)

Less(a, b) == a.hi < b.hi \/ (a.hi = b.hi /\ a.lo < b.lo)

\* 32-bit addition of the high halves, wrapping as a release build does
WrapAdd32(a, b) ==
    IF a > 0 /\ b > MaxI32 - a THEN (a + MinI32) + (b + MinI32)
    ELSE IF a < 0 /\ b < MinI32 - a THEN (a - MinI32) + (b - MinI32)
    ELSE a + b

\* op1 + op2 on i64
Plus(a, b) ==
    IF a.lo > 0 /\ b.lo > MaxI32 - a.lo
    THEN W(WrapAdd32(WrapAdd32(a.hi, b.hi), 1), (a.lo + MinI32) + (b.lo + MinI32))
    ELSE IF a.lo < 0 /\ b.lo < MinI32 - a.lo
    THEN W(WrapAdd32(WrapAdd32(a.hi, b.hi), -1), (a.lo - MinI32) + (b.lo - MinI32))
    ELSE W(WrapAdd32(a.hi, b.hi), a.lo + b.lo)

\* op1 * op2 on i64, for operands whose low halves multiply within 32 bits
Times(a, b) == W(a.hi * b.lo + a.lo * b.hi, a.lo * b.lo)

(***************************************************************************)
(* Pointer (pointer.rs): a usize, kept in the same two-half form.          *)
(***************************************************************************)
Pointer_new(addr) == I(addr)

PointerInc(p) == IF p.lo = MaxI32 THEN W(p.hi + 1, MinI32) ELSE W(p.hi, p.lo + 1)

PointerDec(p) == IF p.lo = MinI32 THEN W(p.hi - 1, MaxI32) ELSE W(p.hi, p.lo - 1)

\* from_i64 without the sign test
Pointer_from_i64_unchecked(addr) == [tag |-> "Ok", val |-> addr]

\* Pointer::from_i64, also the i64 -> Pointer try_into
Pointer_from_i64(addr) ==
    IF ~is_negative(addr)
    THEN [tag |-> "Ok", val |-> addr]
    ELSE [tag |-> "PointerMustNoBeNegative", val |-> addr]

\* pointer < memory.len()
InMemory(p, mem) == p.hi = 0 /\ p.lo >= 0 /\ p.lo < Len(mem)
\* pointer <= memory.len()
AtMostLen(p, mem) == p.hi = 0 /\ p.lo >= 0 /\ p.lo <= Len(mem)
\* memory[pointer], Vec indices starting at 0
Cell(mem, p) == mem[p.lo + 1]

(***************************************************************************)
(* ParamMode and ParamModeDispenser (param_mode.rs).                       *)
(***************************************************************************)
\* ParamMode::from with the two modes exchanged
ParamMode_from_swapped(value) ==
    CASE value = 0 -> "Immediate"
      [] value = 1 -> "Position"
      [] OTHER -> "Illegal"

ParamMode_from(value) ==
    CASE value = 0 -> "Position"
      [] value = 1 -> "Immediate"
      [] OTHER -> "Illegal"

\* the mode ParamModeDispenser::next hands out on its k-th call
ParamModeDispenser_next(modes, k) ==
    ParamMode_from((IF k = 1 THEN modes ELSE IF k = 2 THEN modes \div 10 ELSE modes \div 100) % 10)

(***************************************************************************)
(* State (state.rs).  s is [memory, pointer, input_buffer]; every operator *)
(* returns [s, tag, val]: the state it leaves, "Ok" or the error, and the  *)
(* value.  "Panic" is the index-out-of-bounds panic of memory[pointer].    *)
(***************************************************************************)
get_value_at(s, addr) ==
    IF InMemory(addr, s.memory)
    THEN [tag |-> "Ok", val |-> Cell(s.memory, addr), s |-> s]
    ELSE [tag |-> "IllegalAddress", val |-> addr, s |-> s]

set_value(s, addr, value) ==
    IF ~InMemory(addr, s.memory)
    THEN [tag |-> "IllegalAddress", val |-> addr, s |-> s]
    ELSE [tag |-> "Ok", val |-> value, s |-> [s EXCEPT !.memory[addr.lo + 1] = value]]

get_next(s) ==
    IF AtMostLen(s.pointer, s.memory)
    THEN LET t == [s EXCEPT !.pointer = PointerInc(@)]
         IN  IF InMemory(s.pointer, s.memory)
             THEN [tag |-> "Ok", val |-> Cell(s.memory, s.pointer), s |-> t]
             ELSE [tag |-> "Panic", val |-> s.pointer, s |-> t]
    ELSE [tag |-> "NoMoreData", val |-> Zero, s |-> s]

get_value(s, pm) ==
    IF AtMostLen(s.pointer, s.memory)
    THEN LET t == [s EXCEPT !.pointer = PointerInc(@)]
         IN  IF pm = "Illegal"
             THEN [tag |-> "IllegalParamMode", val |-> Zero, s |-> t]
             ELSE IF ~InMemory(s.pointer, s.memory)
             THEN [tag |-> "Panic", val |-> s.pointer, s |-> t]
             ELSE IF pm = "Immediate"
             THEN [tag |-> "Ok", val |-> Cell(s.memory, s.pointer), s |-> t]
             ELSE LET a == Pointer_from_i64(Cell(s.memory, s.pointer))
                  IN  IF a.tag # "Ok"
                      THEN [tag |-> a.tag, val |-> a.val, s |-> t]
                      ELSE get_value_at(t, a.val)
    ELSE [tag |-> "NoMoreData", val |-> Zero, s |-> s]

\* get_address rejecting only ParamMode::Illegal
get_address_lenient(s, pm) ==
    IF AtMostLen(s.pointer, s.memory)
    THEN LET t == [s EXCEPT !.pointer = PointerInc(@)]
         IN  IF pm = "Illegal"
             THEN [tag |-> "IllegalParamMode", val |-> Zero, s |-> t]
             ELSE IF ~InMemory(s.pointer, s.memory)
             THEN [tag |-> "Panic", val |-> s.pointer, s |-> t]
             ELSE LET a == Pointer_from_i64(Cell(s.memory, s.pointer))
                  IN  [tag |-> a.tag, val |-> a.val, s |-> t]
    ELSE [tag |-> "NoMoreData", val |-> Zero, s |-> s]

get_address(s, pm) ==
    IF AtMostLen(s.pointer, s.memory)
    THEN LET t == [s EXCEPT !.pointer = PointerInc(@)]
         IN  IF pm # "Position"
             THEN [tag |-> "IllegalParamMode", val |-> Zero, s |-> t]
             ELSE IF ~InMemory(s.pointer, s.memory)
             THEN [tag |-> "Panic", val |-> s.pointer, s |-> t]
             ELSE LET a == Pointer_from_i64(Cell(s.memory, s.pointer))
                  IN  [tag |-> a.tag, val |-> a.val, s |-> t]
    ELSE [tag |-> "NoMoreData", val |-> Zero, s |-> s]

\* get_input taking the newest value (pop_back) instead of the oldest
get_input_newest(s) ==
    IF s.input_buffer = <<>>
    THEN [tag |-> "None", val |-> Zero, s |-> s]
    ELSE [tag |-> "Some", val |-> s.input_buffer[Len(s.input_buffer)],
          s |-> [s EXCEPT !.input_buffer = SubSeq(@, 1, Len(@) - 1)]]

get_input(s) ==
    IF s.input_buffer = <<>>
    THEN [tag |-> "None", val |-> Zero, s |-> s]
    ELSE [tag |-> "Some", val |-> Head(s.input_buffer), s |-> [s EXCEPT !.input_buffer = Tail(@)]]

repeat(s) == [s EXCEPT !.pointer = PointerDec(@)]

set_pointer(s, target) == [s EXCEPT !.pointer = target]

(***************************************************************************)
(* Instructions (instructions.rs).  Each calc returns [s, tag, val] with   *)
(* tag one of the InternalStepResult names "Continue", "Output",           *)
(* "Waiting", "Halted", or the error (or "Panic") that `?` passes up.      *)
(***************************************************************************)
\* instruction mod 100000 (opcode and three mode digits) of a positive i64;
\* 2^32 = 4294967296, so 2^32 mod 100000 = 67296 = 67 * 1000 + 296
LowDigits(v) ==
    LET h == v.hi % 100000
    IN  ((((h * 67) % 100) * 1000) + (h * 296) + (v.lo % 100000)) % 100000

\* [tag, code, modes]: the opcode and the digits the dispenser will hand out
analyze_instruction(instruction) ==
    IF ~is_positive(instruction)
    THEN [tag |-> "NotAnInstruction", modes |-> 0, code |-> 0]
    ELSE [tag |-> "Ok", modes |-> LowDigits(instruction) \div 100,
          code |-> LowDigits(instruction) % 100]

\* the shape shared by Add, Mul, LessThan and Equals: two values, one address
\* what Add (1), Mul (2), LessThan (7) and Equals (8) store
Stored(code, op1, op2) ==
    CASE code = 1 -> Plus(op1, op2)
      [] code = 2 -> Times(op1, op2)
      [] code = 7 -> IF Less(op1, op2) THEN I(1) ELSE I(0)
      [] code = 8 -> IF op1 = op2 THEN I(1) ELSE I(0)

ThreeOperands(s, modes, code) ==
    LET op1 == get_value(s, ParamModeDispenser_next(modes, 1))
    IN  IF op1.tag # "Ok" THEN op1 ELSE
        LET op2 == get_value(op1.s, ParamModeDispenser_next(modes, 2))
        IN  IF op2.tag # "Ok" THEN op2 ELSE
            LET target == get_address(op2.s, ParamModeDispenser_next(modes, 3))
            IN  IF target.tag # "Ok" THEN target ELSE
                LET w == set_value(target.s, target.val, Stored(code, op1.val, op2.val))
                IN  IF w.tag # "Ok" THEN w
                    ELSE [tag |-> "Continue", val |-> Zero, s |-> w.s]

Add_calc(s, modes) == ThreeOperands(s, modes, 1)

Mul_calc(s, modes) == ThreeOperands(s, modes, 2)

LessThan_calc(s, modes) == ThreeOperands(s, modes, 7)

Equals_calc(s, modes) == ThreeOperands(s, modes, 8)

Stop_calc(s, modes) == [tag |-> "Halted", val |-> Zero, s |-> s]

Input_calc(s, modes) ==
    LET in == get_input(s)
    IN  IF in.tag = "Some"
        THEN LET target == get_address(in.s, ParamModeDispenser_next(modes, 1))
             IN  IF target.tag # "Ok" THEN target ELSE
                 LET w == set_value(target.s, target.val, in.val)
                 IN  IF w.tag # "Ok" THEN w
                     ELSE [tag |-> "Continue", val |-> Zero, s |-> w.s]
        ELSE [tag |-> "Waiting", val |-> Zero, s |-> repeat(s)]

Output_calc(s, modes) ==
    LET op1 == get_value(s, ParamModeDispenser_next(modes, 1))
    IN  IF op1.tag # "Ok" THEN op1
        ELSE [tag |-> "Output", val |-> op1.val, s |-> op1.s]

\* the shape shared by JumpIfTrue (5) and JumpIfFalse (6)
Jump(s, modes, code) ==
    LET test == get_value(s, ParamModeDispenser_next(modes, 1))
    IN  IF test.tag # "Ok" THEN test ELSE
        LET target == get_value(test.s, ParamModeDispenser_next(modes, 2))
        IN  IF target.tag # "Ok" THEN target ELSE
            IF (code = 5 /\ test.val # Zero) \/ (code = 6 /\ test.val = Zero)
            THEN LET p == Pointer_from_i64(target.val)
                 IN  IF p.tag # "Ok"
                     THEN [tag |-> p.tag, val |-> p.val, s |-> target.s]
                     ELSE [tag |-> "Continue", val |-> Zero, s |-> set_pointer(target.s, p.val)]
            ELSE [tag |-> "Continue", val |-> Zero, s |-> target.s]

JumpIfTrue_calc(s, modes) == Jump(s, modes, 5)

JumpIfFalse_calc(s, modes) == Jump(s, modes, 6)

run_instruction(s) ==
    LET raw == get_next(s)
    IN  IF raw.tag # "Ok" THEN raw ELSE
        LET a == analyze_instruction(raw.val)
        IN  IF a.tag # "Ok" THEN [tag |-> a.tag, val |-> raw.val, s |-> raw.s] ELSE
            CASE a.code = 1 -> Add_calc(raw.s, a.modes)
              [] a.code = 2 -> Mul_calc(raw.s, a.modes)
              [] a.code = 3 -> Input_calc(raw.s, a.modes)
              [] a.code = 4 -> Output_calc(raw.s, a.modes)
              [] a.code = 5 -> JumpIfTrue_calc(raw.s, a.modes)
              [] a.code = 6 -> JumpIfFalse_calc(raw.s, a.modes)
              [] a.code = 7 -> LessThan_calc(raw.s, a.modes)
              [] a.code = 8 -> Equals_calc(raw.s, a.modes)
              [] a.code = 99 -> Stop_calc(raw.s, a.modes)
              [] OTHER -> [tag |-> "IllegalOperation", val |-> I(a.code), s |-> raw.s]

\* the tags that are an Err(ComputerError) of a step
StepErrors == {"NotRunning", "NoMoreData", "IllegalAddress", "IllegalOperation",
               "NotAnInstruction", "IllegalParamMode", "PointerMustNoBeNegative"}

(***************************************************************************)
(* State::next_instruction.  st is [memory, pointer, input_buffer,         *)
(* running]; the result is [st, tag, val, internal]: tag is the            *)
(* ExternalStepResult ("Continue", "Output", "Halted"), an error of        *)
(* StepErrors, or "Panic"; internal is the InternalStepResult of the       *)
(* instruction that ran, "none" when none ran.                             *)
(***************************************************************************)
Core(st) == [memory |-> st.memory, pointer |-> st.pointer, input_buffer |-> st.input_buffer]

WithRunning(s, r) ==
    [memory |-> s.memory, pointer |-> s.pointer, running |-> r, input_buffer |-> s.input_buffer]

next_instruction(st) ==
    IF st.running = "Halted"
    THEN [tag |-> "NotRunning", val |-> Zero, st |-> st, internal |-> "none"]
    ELSE IF st.running = "Waiting" /\ st.input_buffer = <<>>
    THEN [tag |-> "Continue", val |-> Zero, st |-> st, internal |-> "none"]
    ELSE LET r == run_instruction(Core(st))
         IN  CASE r.tag = "Continue" ->
                    [tag |-> "Continue", val |-> Zero, st |-> WithRunning(r.s, "Running"),
                     internal |-> "Continue"]
               [] r.tag = "Waiting" ->
                    [tag |-> "Continue", val |-> Zero, st |-> WithRunning(r.s, "Waiting"),
                     internal |-> "Waiting"]
               [] r.tag = "Output" ->
                    [tag |-> "Output", val |-> r.val, st |-> WithRunning(r.s, "Running"),
                     internal |-> "Output"]
               [] r.tag = "Halted" ->
                    [tag |-> "Halted", val |-> Zero, st |-> WithRunning(r.s, "Halted"),
                     internal |-> "Halted"]
               [] r.tag = "Panic" ->
                    [tag |-> "Panic", val |-> r.val, st |-> WithRunning(r.s, "Running"),
                     internal |-> "Panic"]
               [] OTHER ->
                    [tag |-> r.tag, val |-> r.val, st |-> WithRunning(r.s, "Halted"),
                     internal |-> "Err"]

(***************************************************************************)
(* IntCodeComputer (int_code_computer.rs).                                 *)
(*                                                                         *)
(* A facade call runs the VM in the loop of run(); that loop need not end, *)
(* so a call is a position (call.op) and one action per loop iteration.    *)
(* What a call returns is a record [tag, val, line].                       *)
(***************************************************************************)
R(tag, val, line) == [tag |-> tag, val |-> val, line |-> line]
Unit == R("Unit", Zero, <<>>)

\* the locals of a call: string and got_string_data of maybe_string, n and
\* the Vec collected so far of maybe_take_exactly
Locals(op, string, got) ==
    [n |-> 0, op |-> op, string |-> string, got_string_data |-> got, result |-> <<>>]
TakeLocals(n, result) ==
    [n |-> n, op |-> "maybe_take_exactly", string |-> <<>>,
     got_string_data |-> FALSE, result |-> result]
Idle == Locals("idle", <<>>, FALSE)
Crashed == Locals("crashed", <<>>, FALSE)

IntOps == {"maybe_i64", "expect_i64"}
BoolOps == {"maybe_bool", "expect_bool"}
StringOps == {"maybe_string", "expect_string_", "maybe_string_or_i64"}
TakeOps == {"maybe_take_exactly"}
\* run_till_halt calls run() itself, never receive_next
RunOps == {"run_till_halt"}
AllOps == IntOps \cup BoolOps \cup StringOps \cup TakeOps \cup RunOps

Front(q) == SubSeq(q, 1, Len(q) - 1)

\* char::from_u32(c as u32): the scalar value, or -1 for None
char_from_u32(c) ==
    IF c.lo >= 0 /\ c.lo <= 1114111 /\ ~(c.lo >= 55296 /\ c.lo <= 57343)
    THEN c.lo
    ELSE -1

\* char::is_ascii
is_ascii(ch) == ch >= 0 /\ ch <= 127

\* expect_i64 / maybe_i64 on what receive_next gave
\* (x.tag is "Some", "None" or an error)
IntResult(op, x) ==
    IF x.tag = "Some"
    THEN IF op = "maybe_i64" THEN R("Some", x.val, <<>>) ELSE R("Ok", x.val, <<>>)
    ELSE IF x.tag = "None"
    THEN IF op = "maybe_i64"
         THEN R("None", Zero, <<>>)
         ELSE R("PrematureEndOfOutput", Zero, <<>>)
    ELSE R(x.tag, x.val, <<>>)

\* value != 0, a bool being kept as the i64 1 (true) or 0 (false)
NotZero(value) == IF value # Zero THEN I(1) ELSE I(0)

\* expect_bool returning Ok(false) where the VM gave no value
BoolResult_default(op, x) ==
    IF x.tag = "Some"
    THEN IF op = "maybe_bool" THEN R("SomeBool", NotZero(x.val), <<>>)
         ELSE R("OkBool", NotZero(x.val), <<>>)
    ELSE IF x.tag = "None"
    THEN IF op = "maybe_bool"
         THEN R("None", Zero, <<>>)
         ELSE R("OkBool", I(0), <<>>)
    ELSE R(x.tag, x.val, <<>>)

\* expect_bool / maybe_bool on what receive_next gave
BoolResult(op, x) ==
    IF x.tag = "Some"
    THEN IF op = "maybe_bool" THEN R("SomeBool", NotZero(x.val), <<>>)
         ELSE R("OkBool", NotZero(x.val), <<>>)
    ELSE IF x.tag = "None"
    THEN IF op = "maybe_bool"
         THEN R("None", Zero, <<>>)
         ELSE R("PrematureEndOfOutput", Zero, <<>>)
    ELSE R(x.tag, x.val, <<>>)

\* maybe_string with the newline not setting got_string_data: a line that
\* is empty counts as no line
maybe_string_body_blank(loc, x) ==
    IF x.tag = "None"
    THEN [loc |-> loc, done |-> TRUE, unpull |-> <<>>,
          res |-> IF ~loc.got_string_data THEN R("None", Zero, <<>>)
                  ELSE R("SomeString", Zero, loc.string)]
    ELSE IF x.tag # "Some"
    THEN [loc |-> loc, done |-> TRUE, unpull |-> <<>>, res |-> R(x.tag, x.val, <<>>)]
    ELSE IF x.val = I(10)
    THEN [loc |-> loc, done |-> TRUE, unpull |-> <<>>,
          res |-> IF ~loc.got_string_data THEN R("None", Zero, <<>>)
                  ELSE R("SomeString", Zero, loc.string)]
    ELSE IF is_ascii(char_from_u32(x.val))
    THEN [loc |-> Locals(loc.op, Append(loc.string, char_from_u32(x.val)), TRUE), done |-> FALSE, unpull |-> <<>>,
          res |-> Unit]
    ELSE IF loc.got_string_data
    THEN [loc |-> loc, done |-> TRUE, unpull |-> <<>>, res |-> R("NotAValidChar", x.val, <<>>)]
    ELSE [loc |-> loc, done |-> TRUE, unpull |-> <<x.val>>, res |-> R("None", Zero, <<>>)]

\* one pass of the for loop of maybe_string over the item x of as_iter, and
\* the code after the loop when the pass leaves it: [done, loc, res, unpull]
\* where unpull is <<c>> when push_peeked(c) is called
maybe_string_body(loc, x) ==
    IF x.tag = "None"
    THEN [loc |-> loc, done |-> TRUE, unpull |-> <<>>,
          res |-> IF ~loc.got_string_data THEN R("None", Zero, <<>>)
                  ELSE R("SomeString", Zero, loc.string)]
    ELSE IF x.tag # "Some"
    THEN [loc |-> loc, done |-> TRUE, unpull |-> <<>>, res |-> R(x.tag, x.val, <<>>)]
    ELSE IF x.val = I(10)
    THEN [loc |-> loc, done |-> TRUE, unpull |-> <<>>, res |-> R("SomeString", Zero, loc.string)]
    ELSE IF is_ascii(char_from_u32(x.val))
    THEN [loc |-> Locals(loc.op, Append(loc.string, char_from_u32(x.val)), TRUE), done |-> FALSE, unpull |-> <<>>,
          res |-> Unit]
    ELSE IF loc.got_string_data
    THEN [loc |-> loc, done |-> TRUE, unpull |-> <<>>, res |-> R("NotAValidChar", x.val, <<>>)]
    ELSE [loc |-> loc, done |-> TRUE, unpull |-> <<x.val>>, res |-> R("None", Zero, <<>>)]

\* push_peeked losing the value
push_peeked_lost(pk, value) == pk

\* self.peeked.push_back(value)
push_peeked(pk, value) == Append(pk, value)

\* what the caller of maybe_string does with its result ms, the stash being
\* pk: [ret, peeked, pulled]
after_maybe_string(op, ms, pk, pl) ==
    CASE op = "maybe_string" -> [peeked |-> pk, ret |-> ms, pulled |-> pl]
      [] op = "expect_string_" ->
            [peeked |-> pk,
             ret |-> IF ms.tag = "SomeString" THEN R("OkString", Zero, ms.line)
                     ELSE IF ms.tag = "None" THEN R("PrematureEndOfOutput", Zero, <<>>)
                     ELSE ms, pulled |-> pl]
      [] op = "maybe_string_or_i64" ->
            IF ms.tag = "SomeString"
            THEN [peeked |-> pk, ret |-> R("Right", Zero, ms.line), pulled |-> pl]
            ELSE IF ms.tag # "None"
            THEN [peeked |-> pk, ret |-> ms, pulled |-> pl]
            ELSE IF pk # <<>>
            THEN [peeked |-> Tail(pk), ret |-> R("Left", Head(pk), <<>>),
                  pulled |-> Append(pl, Head(pk))]
            ELSE [peeked |-> pk, ret |-> R("None", Zero, <<>>), pulled |-> pl]

\* maybe_take_exactly returning the Vec whatever its length
take_result_any(result, n) == R("SomeVec", Zero, result)

\* the end of maybe_take_exactly: None unless exactly n values were collected
take_result(result, n) ==
    IF Len(result) # n THEN R("None", Zero, <<>>) ELSE R("SomeVec", Zero, result)

\* as_iter().take(n).try_collect() taking the item x: [done, loc, res]
take_body(loc, x) ==
    IF x.tag = "Some"
    THEN IF Len(loc.result) + 1 = loc.n
         THEN [loc |-> loc, done |-> TRUE,
               res |-> take_result(Append(loc.result, x.val), loc.n)]
         ELSE [loc |-> TakeLocals(loc.n, Append(loc.result, x.val)), done |-> FALSE,
               res |-> Unit]
    ELSE IF x.tag = "None"
    THEN [loc |-> loc, done |-> TRUE, res |-> take_result(loc.result, loc.n)]
    ELSE [loc |-> loc, done |-> TRUE, res |-> R(x.tag, x.val, <<>>)]

\* while self.run()?.is_some() {} taking the result x of one run()
till_halt_body(loc, x) ==
    IF x.tag = "Some"
    THEN [loc |-> loc, done |-> FALSE, res |-> Unit]
    ELSE IF x.tag = "None"
    THEN [loc |-> loc, done |-> TRUE, res |-> Unit]
    ELSE [loc |-> loc, done |-> TRUE, res |-> R(x.tag, x.val, <<>>)]

\* the call op, with locals loc, takes the result x of one receive_next:
\* [done, loc, ret, peeked, pulled]
Handle(op, loc, pk, pl, x) ==
    IF op \in IntOps
    THEN [peeked |-> pk, ret |-> IntResult(op, x), pulled |-> pl, loc |-> loc, done |-> TRUE]
    ELSE IF op \in BoolOps
    THEN [peeked |-> pk, ret |-> BoolResult(op, x), pulled |-> pl, loc |-> loc, done |-> TRUE]
    ELSE IF op \in TakeOps \cup RunOps
    THEN LET t == IF op \in TakeOps THEN take_body(loc, x) ELSE till_halt_body(loc, x)
         IN  [peeked |-> pk, ret |-> t.res, pulled |-> pl, loc |-> t.loc, done |-> t.done]
    ELSE LET b == maybe_string_body(loc, x)
         IN  IF ~b.done
             THEN [peeked |-> pk, ret |-> Unit, pulled |-> pl, loc |-> b.loc, done |-> FALSE]
             ELSE LET pk2 == IF b.unpull # <<>> THEN push_peeked(pk, b.unpull[1]) ELSE pk
                      pl2 == IF b.unpull # <<>> THEN Front(pl) ELSE pl
                      a == after_maybe_string(op, b.res, pk2, pl2)
                  IN  [peeked |-> a.peeked, ret |-> a.ret, pulled |-> a.pulled,
                       loc |-> b.loc, done |-> TRUE]

\* receive_next reading the front of the stash without popping it
receive_next_unpopped(op, loc, pk, pl) ==
    IF pk = <<>>
    THEN [peeked |-> pk, ret |-> Unit, pulled |-> pl, loc |-> loc, done |-> FALSE]
    ELSE Handle(op, loc, pk, Append(pl, Head(pk)), [tag |-> "Some", val |-> Head(pk)])

\* receive_next while the stash serves it: the call goes on taking stashed
\* values until it returns (done) or the stash is empty and run() is needed
RECURSIVE receive_next(_, _, _, _)
receive_next(op, loc, pk, pl) ==
    IF pk = <<>>
    THEN [peeked |-> pk, ret |-> Unit, pulled |-> pl, loc |-> loc, done |-> FALSE]
    ELSE LET h == Handle(op, loc, Tail(pk), Append(pl, Head(pk)),
                         [tag |-> "Some", val |-> Head(pk)])
         IN  IF h.done THEN h ELSE receive_next(op, h.loc, h.peeked, h.pulled)

(***************************************************************************)
(* The program images a VM is built from (ComputerFactory::new takes any   *)
(* Vec<i64>): up to MaxSeg segments, each an immediate OUTPUT of one value *)
(* or an INPUT to cell 0 followed by an OUTPUT of cell 0, then an ending.  *)
(***************************************************************************)
\* 2^32 + 65: outside 0..=127, low 32 bits 65 ('A')
Wide == W(1, 65)

OutValues == {I(65), I(10), I(200), Wide}
InValues == {I(66), I(-1)}

Segments ==
    {<<I(104), v>> : v \in OutValues} \cup {<<I(3), I(0), I(4), I(0)>>}

Endings ==
    { <<I(99)>>,                  \* HALT
      <<I(98)>> }                 \* no such opcode

\* images that end in the other errors
ErrorPrograms ==
    { <<I(-5)>>,                  \* not an instruction
      <<I(1105), I(1), I(-1)>>,   \* jump to a negative address
      <<I(204), I(0)>>,           \* mode digit 2
      <<I(3), I(1000), I(99)>>,   \* INPUT to an address past the image
      <<I(104), I(65)>> }         \* runs off the end of the image

RECURSIVE Flatten(_)
Flatten(segs) == IF segs = <<>> THEN <<>> ELSE Head(segs) \o Flatten(Tail(segs))

SegmentLists == UNION {[1..n -> Segments] : n \in 0..MaxSeg}

Words(ns) == [i \in 1..Len(ns) |-> I(ns[i])]

\* the images of the tests day02::test::simple and day05::test::param_mode
FixedPrograms ==
    { Words(<<1, 9, 10, 3, 2, 3, 11, 0, 99, 30, 40, 50>>),
      Words(<<1101, 100, -1, 4, 0>>) }

\* the image of the test day02::test::simple
Day02 == Words(<<1, 9, 10, 3, 2, 3, 11, 0, 99, 30, 40, 50>>)

\* the image of the test day05::test::param_mode
Day05 == Words(<<1101, 100, -1, 4, 0>>)

\* the image of the test day05::test::complex
Branch47 ==
    Words(<<3, 21, 1008, 21, 8, 20, 1005, 20, 22, 107, 8, 21, 20, 1006, 20, 31,
            1106, 0, 36, 98, 0, 0, 1002, 21, 125, 20, 4, 20, 1105, 1, 46, 104,
            999, 1105, 1, 46, 1101, 1000, 1, 20, 4, 20, 1105, 1, 46, 98, 99>>)

\* the image of the test day09::test::copy
Quine ==
    Words(<<109, 1, 204, -1, 1001, 100, 1, 100, 1008, 100, 16, 101, 1006, 101, 0, 99>>)

\* sets the relative base to 2000, then adds 1 and 2 into relative offset 0
RelativeWrite == Words(<<109, 2000, 21101, 1, 2, 0, 99>>)

\* outputs the cell at address 100, which the image does not reach
ReadBeyond == Words(<<4, 100, 99>>)

\* adds 1 and 2 into address 100, which the image does not reach, and
\* outputs that cell
WriteBeyond == Words(<<1101, 1, 2, 100, 4, 100, 99>>)

RunPrograms == {Day02, Day05, Branch47, Quine, RelativeWrite, ReadBeyond, WriteBeyond}

\* the inputs of the test day05::test::complex
TestValues == {I(7), I(8), I(9)}

\* addresses inside and past the images
RunPokeAddresses == {0, 100}
PeekAddresses == {0, 4, 100}

Programs ==
    {Flatten(l) \o e : l \in SegmentLists, e \in Endings} \cup ErrorPrograms \cup FixedPrograms

\* the address and the value manipulate_memory is called with
PokeAddresses == {0}
PokeValues == {I(2)}

\* the n of maybe_take_exactly (day13 takes 3)
TakeCounts == {0, 2}

(***************************************************************************)
(* The state machine.                                                      *)
(***************************************************************************)
VM == [memory |-> memory, pointer |-> pointer, running |-> running,
       input_buffer |-> input_buffer]

\* IntCodeComputer::new with State::new, as a record of the fields (and
\* histories) of the new computer
IntCodeComputer_new(image) ==
    [init_memory |-> image, memory |-> image, pointer |-> Pointer_new(0),
     running |-> "Running", input_buffer |-> <<>>, peeked |-> <<>>,
     pushed |-> <<>>, written |-> <<>>, produced |-> <<>>, pulled |-> <<>>,
     stopped |-> "no", poked |-> FALSE]

\* ComputerFactory::build handing out its own data and keeping none
ComputerFactory_build_moving(d) == [data |-> <<>>, computer |-> IntCodeComputer_new(d)]

\* ComputerFactory::build: the new computer, made of a copy of data, and the
\* data the factory keeps
ComputerFactory_build(d) == [data |-> d, computer |-> IntCodeComputer_new(d)]

\* Amplifier::run is not under way
NoAmp == [value |-> Zero, i |-> 0, pc |-> "none", phase_values |-> <<>>]

\* ComputerFactory::new(image) for an image of the set images, and two
\* build()s: the computer the methods act on and a second one
Created(images) ==
    /\ data \in images
    /\ init_memory = data
    /\ memory = data
    /\ pointer = Pointer_new(0)
    /\ running = "Running"
    /\ input_buffer = <<>>
    /\ peeked = <<>>
    /\ call = Idle
    /\ ret = Unit
    /\ pushed = <<>>
    /\ written = <<>>
    /\ produced = <<>>
    /\ pulled = <<>>
    /\ stopped = "no"
    /\ poked = FALSE
    /\ other = ComputerFactory_build(data).computer
    /\ computers = <<>>

\* SpringDroid::run_instructions is not under way
NoDroid ==
    [result |-> Unit, pc |-> "none", allowed_distance |-> 0, start_verb |-> <<>>,
     instructions |-> <<>>, messages |-> <<>>]

\* no AsciiBrain is at work
NoBrain == [result |-> Unit, image |-> <<>>, pc |-> "none", input |-> <<>>, sent |-> 0]

\* the same, by a caller other than the Amplifier
Standalone(images) ==
    /\ Created(images)
    /\ amp = NoAmp
    /\ droid = NoDroid
    /\ brain = NoBrain

Init == Standalone(Programs)

\* reset without self.peeked.clear()
reset_keeps_stash ==
    /\ call = Idle
    /\ memory' = init_memory
    /\ pointer' = Pointer_new(0)
    /\ running' = "Running"
    /\ input_buffer' = <<>>
    /\ ret' = Unit
    /\ pushed' = <<>>
    /\ written' = <<>>
    /\ produced' = <<>>
    /\ pulled' = <<>>
    /\ stopped' = "no"
    /\ poked' = FALSE
    /\ UNCHANGED <<init_memory, call, peeked>>
    /\ UNCHANGED outside

\* reset
reset ==
    /\ call = Idle
    /\ memory' = init_memory
    /\ pointer' = Pointer_new(0)
    /\ running' = "Running"
    /\ input_buffer' = <<>>
    /\ peeked' = <<>>
    /\ ret' = Unit
    /\ pushed' = <<>>
    /\ written' = <<>>
    /\ produced' = <<>>
    /\ pulled' = <<>>
    /\ stopped' = "no"
    /\ poked' = FALSE
    /\ UNCHANGED <<init_memory, call>>
    /\ UNCHANGED outside

\* send_i64 with State::push_input, the value being one of values: what
\* it does to the computer
push_input(values) ==
    /\ call = Idle
    /\ \E value \in values :
          /\ input_buffer' = Append(input_buffer, value)
          /\ pushed' = Append(pushed, value)
    /\ ret' = Unit
    /\ UNCHANGED <<init_memory, memory, pointer, running, peeked, call,
                   written, produced, pulled, stopped, poked>>

\* the same, for callers that may push without end
push(values) ==
    /\ Len(pushed) < MaxPush
    /\ push_input(values)

send(values) ==
    /\ push(values)
    /\ UNCHANGED outside

send_i64 == send(InValues)

\* manipulate_memory with State::set_value, the address being one of
\* addrs: what it does to the computer
set_memory(addrs) ==
    /\ call = Idle
    /\ \E addr \in addrs, value \in PokeValues :
          LET w == set_value(Core(VM), Pointer_new(addr), value)
          IN  /\ memory' = w.s.memory
              /\ ret' = IF w.tag = "Ok" THEN Unit ELSE R(w.tag, w.val, <<>>)
    /\ poked' = TRUE
    /\ UNCHANGED <<init_memory, pointer, running, input_buffer, peeked, call,
                   pushed, written, produced, pulled, stopped>>

\* manipulate_memory, the address being one of addrs
poke(addrs) ==
    /\ set_memory(addrs)
    /\ UNCHANGED outside

manipulate_memory == poke(PokeAddresses)

\* get_memory_value, the address being one of addrs
peek(addrs) ==
    /\ call = Idle
    /\ \E addr \in addrs :
          LET r == get_value_at(Core(VM), Pointer_new(addr))
          IN  ret' = IF r.tag = "Ok" THEN R("Value", r.val, <<>>) ELSE R(r.tag, r.val, <<>>)
    /\ UNCHANGED <<init_memory, memory, pointer, running, input_buffer, peeked, call,
                   pushed, written, produced, pulled, stopped, poked>>
    /\ UNCHANGED outside

\* a typed reader is called: it takes what the stash holds and either
\* returns or enters run()
receive(loc) ==
    /\ call = Idle
    /\ \E d \in {receive_next(loc.op, loc, peeked, pulled)} :
           /\ peeked' = d.peeked
           /\ pulled' = d.pulled
           /\ IF d.done
              THEN /\ call' = Idle
                   /\ ret' = d.ret
              ELSE /\ call' = d.loc
                   /\ UNCHANGED ret
    /\ UNCHANGED <<init_memory, memory, pointer, running, input_buffer,
                   pushed, written, produced, stopped, poked>>

Enter(loc) ==
    /\ receive(loc)
    /\ UNCHANGED outside

Begin(op) == Enter(Locals(op, <<>>, FALSE))

\* maybe_take_exactly(n): take(0) asks the iterator for nothing
maybe_take_exactly ==
    \E n \in TakeCounts :
        IF n = 0
        THEN /\ call = Idle
             /\ ret' = take_result(<<>>, n)
             /\ UNCHANGED <<init_memory, memory, pointer, running, input_buffer, peeked,
                            call, pushed, written, produced, pulled, stopped, poked>>
             /\ UNCHANGED outside
        ELSE Enter(TakeLocals(n, <<>>))

\* run_till_halt: the first run() is called whatever the stash holds
run_till_halt ==
    /\ call = Idle
    /\ call' = Locals("run_till_halt", <<>>, FALSE)
    /\ UNCHANGED <<init_memory, memory, pointer, running, input_buffer, peeked, ret,
                   pushed, written, produced, pulled, stopped, poked>>
    /\ UNCHANGED outside

maybe_i64 == Begin("maybe_i64")
expect_i64 == Begin("expect_i64")
maybe_string == Begin("maybe_string")
expect_string_ == Begin("expect_string_")
maybe_string_or_i64 == Begin("maybe_string_or_i64")
expect_bool == Begin("expect_bool")
maybe_bool == Begin("maybe_bool")

\* the raw instruction under the pointer, 0 when the pointer is outside memory
Opcode(st) ==
    IF InMemory(st.pointer, st.memory) /\ is_positive(Cell(st.memory, st.pointer))
    THEN LowDigits(Cell(st.memory, st.pointer)) % 100
    ELSE 0

\* the cell an INPUT under the pointer names as its target
InputTarget(st) == Cell(st.memory, PointerInc(st.pointer))

\* one iteration of the loop of run(), inside the call in progress, and
\* what the call does with the result when run() returns
run ==
    /\ call.op \in AllOps
    /\ \E n \in {next_instruction(VM)} :
           /\ memory' = n.st.memory
           /\ pointer' = n.st.pointer
           /\ running' = n.st.running
           /\ input_buffer' = n.st.input_buffer
           /\ produced' = IF n.tag = "Output" THEN Append(produced, n.val) ELSE produced
           /\ written' = IF n.internal = "Continue" /\ Opcode(VM) = 3
                         THEN Append(written, Cell(n.st.memory, InputTarget(VM)))
                         ELSE written
           /\ stopped' = IF n.internal = "Halted" THEN "halt"
                         ELSE IF n.internal = "Err" THEN "error"
                         ELSE stopped
           /\ IF n.tag = "Continue"
              THEN UNCHANGED <<call, ret, peeked, pulled>>
              ELSE IF n.tag = "Panic"
              THEN /\ call' = Crashed
                   /\ ret' = R("Panic", n.val, <<>>)
                   /\ UNCHANGED <<peeked, pulled>>
              ELSE LET x == CASE n.tag = "Output" -> [tag |-> "Some", val |-> n.val]
                              [] n.tag = "Halted" -> [tag |-> "None", val |-> Zero]
                              [] n.tag = "Waiting" -> [tag |-> "WaitingForInput", val |-> Zero]
                              [] OTHER -> [tag |-> n.tag, val |-> n.val]
                       pl == IF n.tag = "Output" THEN Append(pulled, n.val) ELSE pulled
                   IN  \E h \in {Handle(call.op, call, peeked, pl, x)} :
                       \E d \in {IF h.done \/ call.op \in RunOps THEN h
                                  ELSE receive_next(call.op, h.loc, h.peeked, h.pulled)} :
                          /\ peeked' = d.peeked
                          /\ pulled' = d.pulled
                          /\ IF d.done
                             THEN /\ call' = Idle
                                  /\ ret' = d.ret
                             ELSE /\ call' = d.loc
                                  /\ UNCHANGED ret
    /\ UNCHANGED <<init_memory, pushed, poked>>
    /\ UNCHANGED outside

Next ==
    \/ reset
    \/ send_i64
    \/ manipulate_memory
    \/ maybe_i64
    \/ expect_i64
    \/ maybe_string
    \/ expect_string_
    \/ maybe_string_or_i64
    \/ run

Spec == Init /\ [][Next]_vars

\* the computer the methods act on, as a record like IntCodeComputer_new's
Whole ==
    [init_memory |-> init_memory, memory |-> memory, pointer |-> pointer,
     running |-> running, input_buffer |-> input_buffer, peeked |-> peeked,
     pushed |-> pushed, written |-> written, produced |-> produced, pulled |-> pulled,
     stopped |-> stopped, poked |-> poked]

\* the computer c becomes the one the methods act on
Load(c) ==
    /\ init_memory' = c.init_memory
    /\ memory' = c.memory
    /\ pointer' = c.pointer
    /\ running' = c.running
    /\ input_buffer' = c.input_buffer
    /\ peeked' = c.peeked
    /\ pushed' = c.pushed
    /\ written' = c.written
    /\ produced' = c.produced
    /\ pulled' = c.pulled
    /\ stopped' = c.stopped
    /\ poked' = c.poked

\* the caller turns to the other of its two computers
switch ==
    /\ call = Idle
    /\ Load(other)
    /\ other' = Whole
    /\ UNCHANGED <<call, ret, data, amp, computers>>
    /\ UNCHANGED scripts

\* let mut computer = factory.build(): the old computer is dropped
build ==
    /\ call = Idle
    /\ \E b \in {ComputerFactory_build(data)} :
           /\ Load(b.computer)
           /\ data' = b.data
    /\ ret' = Unit
    /\ UNCHANGED <<call, other, amp, computers>>
    /\ UNCHANGED scripts

\* the image of day07's example01.txt
AmpExample ==
    Words(<<3, 15, 3, 16, 1002, 16, 10, 16, 1, 16, 15, 15, 4, 15, 99, 0, 0>>)

\* the permutations of 0..5 (max_once: (0..5).permutations(5))
Phases == {p \in [1..5 -> 0..4] : \A j, k \in 1..5 : p[j] = p[k] => j = k}

\* Amplifier::run sending the prior value first and the phase second
AmpInputs_value_first(phase_values, i, value) == <<value, I(phase_values[i])>>

\* what Amplifier::run sends to the i-th computer, in order: its phase
\* (initialize_computers), then the value folded so far
AmpInputs(phase_values, i, value) == <<I(phase_values[i]), value>>

\* Amplifier::run(phase_values) is called: value starts as 0
AmpInit ==
    /\ Created({AmpExample})
    /\ \E p \in Phases :
          amp = [value |-> Zero, i |-> 1, pc |-> "build", phase_values |-> p]
    /\ droid = NoDroid
    /\ brain = NoBrain

\* initialize_computers: self.factory.build() for the next phase
amp_build ==
    /\ amp.pc = "build"
    /\ call = Idle
    /\ \E b \in {ComputerFactory_build(data)} :
           /\ Load(b.computer)
           /\ data' = b.data
    /\ amp' = [amp EXCEPT !.pc = "phase"]
    /\ UNCHANGED <<call, ret, other, computers>>
    /\ UNCHANGED scripts

\* initialize_computers: computer.send_i64(*phase)
amp_phase ==
    /\ amp.pc = "phase"
    /\ push({AmpInputs(amp.phase_values, amp.i, amp.value)[1]})
    /\ amp' = [amp EXCEPT !.pc = "value"]
    /\ UNCHANGED <<data, other, computers>>
    /\ UNCHANGED scripts

\* the closure of try_fold: computer.send_i64(value)
amp_value ==
    /\ amp.pc = "value"
    /\ push({AmpInputs(amp.phase_values, amp.i, amp.value)[2]})
    /\ amp' = [amp EXCEPT !.pc = "expect"]
    /\ UNCHANGED <<data, other, computers>>
    /\ UNCHANGED scripts

\* the closure of try_fold: computer.expect_i64() is called
amp_expect ==
    /\ amp.pc = "expect"
    /\ receive(Locals("expect_i64", <<>>, FALSE))
    /\ amp' = [amp EXCEPT !.pc = "fold"]
    /\ UNCHANGED <<data, other, computers>>
    /\ UNCHANGED scripts

\* try_fold takes what expect_i64 returned: the next computer, the end of
\* the phases (Ok(value)), or the error (?)
amp_fold ==
    /\ amp.pc = "fold"
    /\ call = Idle
    /\ amp' = IF ret.tag # "Ok"
              THEN [amp EXCEPT !.pc = "failed"]
              ELSE IF amp.i = Len(amp.phase_values)
              THEN [amp EXCEPT !.pc = "done", !.value = ret.val]
              ELSE [amp EXCEPT !.pc = "build", !.value = ret.val, !.i = @ + 1]
    /\ UNCHANGED <<init_memory, memory, pointer, running, input_buffer, peeked,
                   call, ret, pushed, written, produced, pulled, stopped, poked>>
    /\ UNCHANGED <<data, other, computers>>
    /\ UNCHANGED scripts

\* Amplifier::run, the steps of the computers included
AmpNext ==
    \/ amp_build
    \/ amp_phase
    \/ amp_value
    \/ amp_expect
    \/ amp_fold
    \/ run

AmpSpec == AmpInit /\ [][AmpNext]_vars

\* the image of day07's example04.txt
Feedback ==
    Words(<<3, 26, 1001, 26, -4, 26, 3, 27, 1002, 27, 2, 27, 1, 27, 26, 27, 4, 27,
            1001, 28, -1, 28, 1005, 28, 6, 99, 0, 0, 5>>)

\* the permutations of 5..10 (max_recursive: (5..10).permutations(5))
FeedbackPhases == {p \in [1..5 -> 5..9] : \A j, k \in 1..5 : p[j] = p[k] => j = k}

\* for computer in computers.iter_mut() staying on the same computer
next_computer_same(i, n) == i

\* loop { for computer in computers.iter_mut() }: the index after i of n
next_computer(i, n) == (i % n) + 1

\* Amplifier::run_recursive(phase_values) is called
RingInit ==
    /\ Created({Feedback})
    /\ \E p \in FeedbackPhases :
          amp = [value |-> Zero, i |-> 1, pc |-> "rbuild", phase_values |-> p]
    /\ droid = NoDroid
    /\ brain = NoBrain

\* initialize_computers under collect_vec: self.factory.build()
ring_build ==
    /\ amp.pc = "rbuild"
    /\ call = Idle
    /\ \E b \in {ComputerFactory_build(data)} :
           /\ Load(b.computer)
           /\ data' = b.data
    /\ amp' = [amp EXCEPT !.pc = "rphase"]
    /\ UNCHANGED <<call, ret, other, computers>>
    /\ UNCHANGED scripts

\* initialize_computers under collect_vec: computer.send_i64(*phase), and
\* the computer goes into the Vec; let mut value = 0 after the last
ring_phase ==
    /\ amp.pc = "rphase"
    /\ push_input({I(amp.phase_values[amp.i])})
    /\ computers' = Append(computers, Whole')
    /\ amp' = IF amp.i = Len(amp.phase_values)
              THEN [amp EXCEPT !.value = Zero, !.i = 1, !.pc = "turn"]
              ELSE [amp EXCEPT !.i = @ + 1, !.pc = "rbuild"]
    /\ UNCHANGED <<data, other>>
    /\ UNCHANGED scripts

\* the for loop hands out the computer amp.i of the Vec
ring_turn ==
    /\ amp.pc = "turn"
    /\ call = Idle
    /\ Load(computers[amp.i])
    /\ amp' = [amp EXCEPT !.pc = "send"]
    /\ UNCHANGED <<call, ret, data, other, computers>>
    /\ UNCHANGED scripts

\* computer.send_i64(value)
ring_send ==
    /\ amp.pc = "send"
    /\ push_input({amp.value})
    /\ amp' = [amp EXCEPT !.pc = "pull"]
    /\ UNCHANGED <<data, other, computers>>
    /\ UNCHANGED scripts

\* computer.maybe_i64() is called
ring_pull ==
    /\ amp.pc = "pull"
    /\ receive(Locals("maybe_i64", <<>>, FALSE))
    /\ amp' = [amp EXCEPT !.pc = "got"]
    /\ UNCHANGED <<data, other, computers>>
    /\ UNCHANGED scripts

\* what maybe_i64()? gave: Some(next_value) goes to the next computer,
\* None returns Ok(value), an error is passed up
ring_got ==
    /\ amp.pc = "got"
    /\ call = Idle
    /\ amp' = IF ret.tag = "Some"
              THEN [amp EXCEPT !.value = ret.val,
                               !.i = next_computer(amp.i, Len(computers)),
                               !.pc = "turn"]
              ELSE IF ret.tag = "None"
              THEN [amp EXCEPT !.pc = "done"]
              ELSE [amp EXCEPT !.pc = "failed"]
    /\ computers' = [computers EXCEPT ![amp.i] = Whole]
    /\ UNCHANGED <<init_memory, memory, pointer, running, input_buffer, peeked,
                   call, ret, pushed, written, produced, pulled, stopped, poked>>
    /\ UNCHANGED <<data, other>>
    /\ UNCHANGED scripts

\* Amplifier::run_recursive, the steps of the computers included
RingNext ==
    \/ ring_build
    \/ ring_phase
    \/ ring_turn
    \/ ring_send
    \/ ring_pull
    \/ ring_got
    \/ run

RingSpec == RingInit /\ [][RingNext]_vars

\* an amplifier program that outputs its input value plus 1 and runs into
\* the illegal opcode 50 when that input is 2
FailsOnTwo ==
    Words(<<3, 20, 3, 21, 108, 2, 21, 22, 1005, 22, 19, 1001, 21, 1, 21, 4, 21, 99,
            0, 50, 0, 0, 0>>)

\* amplifier programs that fail: one asks for a third input, one halts
\* with no output, one writes past the image
AskingMore == Words(<<3, 0, 3, 1, 3, 2, 4, 1, 99>>)
Silent == Words(<<3, 0, 3, 1, 99>>)
FailingPrograms ==
    {FailsOnTwo, AskingMore, Silent, Words(<<3, 0, 3, 100, 4, 0, 99>>), AmpExample}

FailingPhases == {<<0, 1, 2, 3, 4>>, <<4, 3, 2, 1, 0>>}

\* Amplifier::run or Amplifier::run_recursive is called on a factory of
\* one of the programs
FailingInit ==
    /\ Created(FailingPrograms)
    /\ \E p \in FailingPhases, start \in {"build", "rbuild"} :
          amp = [value |-> Zero, i |-> 1, pc |-> start, phase_values |-> p]
    /\ droid = NoDroid
    /\ brain = NoBrain

FailingSpec == FailingInit /\ [][AmpNext \/ RingNext]_vars

(***************************************************************************)
(* SpringDroid (day21).  A char is its code point; a string is the         *)
(* sequence of its chars.                                                  *)
(***************************************************************************)
\* most instructions in the slice run_instructions is given
MaxInstructions == 2

\* Display of Instruction
Instruction_fmt(instruction) ==
    CASE instruction = "And" -> <<65, 78, 68>>
      [] instruction = "Or" -> <<79, 82>>
      [] instruction = "Not" -> <<78, 79, 84>>

\* Display of Read: the distance letter, or 'T'
Read_fmt(read) == IF read.tag = "Distance" THEN <<read.val>> ELSE <<84>>

\* Display of Write: 'T' or 'J'
Write_fmt(write) == IF write = "Temp" THEN <<84>> ELSE <<74>>

\* format!("{instruction} {read} {write}")
format_instruction(instruction, read, write) ==
    Instruction_fmt(instruction) \o <<32>> \o Read_fmt(read) \o <<32>> \o Write_fmt(write)

\* char::is_ascii_uppercase
is_ascii_uppercase(c) == c >= 65 /\ c <= 90

\* the distance test of send_instructions with >= for >
distance_rejected_at_limit(c, allowed_distance) ==
    ~is_ascii_uppercase(c) \/ c >= allowed_distance

\* the distance test of send_instructions
distance_rejected(c, allowed_distance) ==
    ~is_ascii_uppercase(c) \/ c > allowed_distance

\* send_string without the closing send_i64(10)
send_string_values_open(input) == [j \in 1..Len(input) |-> I(input[j])]

\* what send_string pushes: every char as i64, then 10
send_string_values(input) == [j \in 1..Len(input) |-> I(input[j])] \o <<I(10)>>

\* send_string: what it does to the computer
send_string(input) ==
    /\ call = Idle
    /\ input_buffer' = input_buffer \o send_string_values(input)
    /\ pushed' = pushed \o send_string_values(input)
    /\ ret' = Unit
    /\ UNCHANGED <<init_memory, memory, pointer, running, peeked, call,
                   written, produced, pulled, stopped, poked>>

Distance(c) == [tag |-> "Distance", val |-> c]
Temp == [tag |-> "Temp", val |-> 0]

\* the distance letters tried: A, D, E, I, J, a and [
DistanceLetters == {65, 68, 69, 73, 74, 97, 91}

\* the tuples an instruction slice is made of
DroidInstructions ==
    {<<"Not", Distance(c), "Jump">> : c \in DistanceLetters}
        \cup {<<"Or", Temp, "Jump">>, <<"And", Distance(68), "Temp">>}

\* SpringDroid::create as Day::part1 and Day::part2 call it:
\* ('D', "WALK") and ('I', "RUN")
DroidModes == {<<68, <<87, 65, 76, 75>>>>, <<73, <<82, 85, 78>>>>}

\* the images the droid runs: a prompt line, then the program reads the
\* script and answers with a number, with lines and a halt, or fails
DroidPrograms ==
    { Words(<<104, 63, 104, 10, 3, 0, 104, 200, 99>>),
      Words(<<104, 63, 104, 10, 3, 0, 4, 0, 104, 10, 99>>),
      Words(<<104, 200, 99>>),
      Words(<<104, 63, 99>>),
      Words(<<104, 63, 104, 200, 99>>),
      <<I(104), Wide, I(99)>>,
      Words(<<104, 63, 104, 10, 98>>),
      Words(<<99>>) }

\* SpringDroid::create, and run_instructions is called
DroidInit ==
    /\ Created(DroidPrograms)
    /\ amp = NoAmp
    /\ brain = NoBrain
    /\ \E m \in DroidModes :
          droid = [result |-> Unit, pc |-> "send", allowed_distance |-> m[1],
                   start_verb |-> m[2], instructions |-> <<>>, messages |-> <<>>]

\* run_instructions takes the next tuple of the slice: send_instructions
droid_send ==
    /\ droid.pc = "send"
    /\ Len(droid.instructions) < MaxInstructions
    /\ \E t \in DroidInstructions :
          IF t[2].tag = "Distance" /\ distance_rejected(t[2].val, droid.allowed_distance)
          THEN /\ droid' = [droid EXCEPT !.pc = "failed",
                                         !.instructions = Append(@, t),
                                         !.result = R("IncorrectDistance", I(t[2].val), <<>>)]
               /\ UNCHANGED <<init_memory, memory, pointer, running, input_buffer, peeked,
                              call, ret, pushed, written, produced, pulled, stopped, poked>>
          ELSE /\ send_string(format_instruction(t[1], t[2], t[3]))
               /\ droid' = [droid EXCEPT !.instructions = Append(@, t)]
    /\ UNCHANGED <<data, other, amp, computers, brain>>

\* the slice is at its end; start_program: send_string(start_verb) and
\* messages = vec![]
droid_start ==
    /\ droid.pc = "send"
    /\ send_string(droid.start_verb)
    /\ droid' = [droid EXCEPT !.pc = "read", !.messages = <<>>]
    /\ UNCHANGED <<data, other, amp, computers, brain>>

\* start_program: self.brain.maybe_string_or_i64() is called
droid_read ==
    /\ droid.pc = "read"
    /\ receive(Locals("maybe_string_or_i64", <<>>, FALSE))
    /\ droid' = [droid EXCEPT !.pc = "line"]
    /\ UNCHANGED <<data, other, amp, computers, brain>>

\* start_program takes what maybe_string_or_i64()? gave, and
\* run_instructions what start_program()? gave
droid_line ==
    /\ droid.pc = "line"
    /\ call = Idle
    /\ droid' = CASE ret.tag = "Left" ->
                       [droid EXCEPT !.pc = "done", !.result = R("Ok", ret.val, <<>>)]
                  [] ret.tag = "Right" ->
                       [droid EXCEPT !.pc = "read", !.messages = Append(@, ret.line)]
                  [] ret.tag = "None" ->
                       [droid EXCEPT !.pc = "done",
                                     !.result = R("IncorrectResult", Zero, <<>>)]
                  [] OTHER ->
                       [droid EXCEPT !.pc = "failed", !.result = ret]
    /\ UNCHANGED <<init_memory, memory, pointer, running, input_buffer, peeked,
                   call, ret, pushed, written, produced, pulled, stopped, poked>>
    /\ UNCHANGED <<data, other, amp, computers, brain>>

\* SpringDroid::run_instructions, the steps of the brain included
DroidNext ==
    \/ droid_send
    \/ droid_start
    \/ droid_read
    \/ droid_line
    \/ run

DroidSpec == DroidInit /\ [][DroidNext]_vars

(***************************************************************************)
(* AsciiBrain (day17) as Day::part2 drives it: get_image, then feed_input  *)
(* with the lines worked out from the picture.                             *)
(***************************************************************************)
\* an image like the puzzle's: cell 0 is the ADD the patch turns into MUL;
\* it prints a picture line and, when the product is not 0, goes on to
\* prompt, read a char and print the score, else halts
Scaffold ==
    Words(<<1, 21, 22, 23, 104, 35, 104, 10, 1005, 23, 12, 99,
            104, 63, 104, 10, 3, 24, 104, 200, 99, 1, -1, 0, 0>>)

\* the images the AsciiBrain runs: the scaffold, a picture of two lines, a
\* picture followed by a score and a prompt, a picture whose last line is
\* open, a picture followed by an empty line and a score, a picture
\* followed by an unknown opcode, and no picture at all
BrainPrograms ==
    { Scaffold,
      Words(<<104, 35, 104, 46, 104, 10, 104, 46, 104, 35, 104, 10, 99>>),
      Words(<<104, 35, 104, 10, 104, 200, 104, 63, 104, 10, 3, 0, 99>>),
      Words(<<104, 35, 99>>),
      Words(<<104, 35, 104, 10, 104, 10, 104, 200, 99>>),
      Words(<<104, 35, 104, 10, 98>>),
      Words(<<99>>) }

\* what break_up_path()? gives: the lines feed_input is to send
BrainInputs == {<<>>, <<<<65>>>>, <<<<65, 44, 66>>, <<76, 44, 52>>>>}

\* AsciiBrain::new, and Day::part2 calls get_image
BrainInit ==
    /\ Created(BrainPrograms)
    /\ amp = NoAmp
    /\ droid = NoDroid
    /\ brain = [result |-> Unit, image |-> <<>>, pc |-> "image", input |-> <<>>, sent |-> 0]

\* get_image: self.brain.maybe_string() is called
brain_image ==
    /\ brain.pc = "image"
    /\ receive(Locals("maybe_string", <<>>, FALSE))
    /\ brain' = [brain EXCEPT !.pc = "line"]
    /\ UNCHANGED <<data, other, amp, computers, droid>>

\* get_image takes what maybe_string() gave: a line is collected; None
\* ends the image, and Day::part2 goes on to feed_input with the lines it
\* has worked out, animate to self.brain.expect_i64(); an error is passed up
brain_line ==
    /\ brain.pc = "line"
    /\ call = Idle
    /\ CASE ret.tag = "SomeString" ->
              /\ brain' = [brain EXCEPT !.pc = "image", !.image = Append(@, ret.line)]
              /\ UNCHANGED <<init_memory, memory, pointer, running, input_buffer, peeked,
                             call, ret, pushed, written, produced, pulled, stopped, poked>>
         [] ret.tag = "None" /\ brain.sent = 0 ->
              /\ \E input \in BrainInputs :
                    brain' = [brain EXCEPT !.pc = "poke", !.input = input]
              /\ UNCHANGED <<init_memory, memory, pointer, running, input_buffer, peeked,
                             call, ret, pushed, written, produced, pulled, stopped, poked>>
         [] ret.tag = "None" /\ brain.sent > 0 ->
              /\ receive(Locals("expect_i64", <<>>, FALSE))
              /\ brain' = [brain EXCEPT !.pc = "got"]
         [] OTHER ->
              /\ brain' = [brain EXCEPT !.pc = "failed", !.result = ret]
              /\ UNCHANGED <<init_memory, memory, pointer, running, input_buffer, peeked,
                             call, ret, pushed, written, produced, pulled, stopped, poked>>
    /\ UNCHANGED <<data, other, amp, computers, droid>>

\* feed_input: self.brain.manipulate_memory(Pointer::new(0), 2)
brain_poke ==
    /\ brain.pc = "poke"
    /\ set_memory({0})
    /\ brain' = [brain EXCEPT !.pc = "expect"]
    /\ UNCHANGED <<data, other, amp, computers, droid>>

\* receive_and_send: self.brain.expect_string_() is called
brain_expect ==
    /\ brain.pc = "expect"
    /\ receive(Locals("expect_string_", <<>>, FALSE))
    /\ brain' = [brain EXCEPT !.pc = "got"]
    /\ UNCHANGED <<data, other, amp, computers, droid>>

\* what expect_string_()? gave receive_and_send: the next line of the
\* input, or "n" after the last (animate), is sent; what expect_i64()?
\* gave feed_input: the result; an error is passed up
brain_got ==
    /\ brain.pc = "got"
    /\ call = Idle
    /\ CASE ret.tag = "OkString" /\ brain.sent < Len(brain.input) ->
              /\ send_string(brain.input[brain.sent + 1])
              /\ brain' = [brain EXCEPT !.pc = "expect", !.sent = @ + 1]
         [] ret.tag = "OkString" /\ brain.sent >= Len(brain.input) ->
              /\ send_string(<<110>>)
              /\ brain' = [brain EXCEPT !.pc = "image", !.sent = @ + 1]
         [] ret.tag = "Ok" ->
              /\ brain' = [brain EXCEPT !.pc = "done", !.result = ret]
              /\ UNCHANGED <<init_memory, memory, pointer, running, input_buffer, peeked,
                             call, ret, pushed, written, produced, pulled, stopped, poked>>
         [] OTHER ->
              /\ brain' = [brain EXCEPT !.pc = "failed", !.result = ret]
              /\ UNCHANGED <<init_memory, memory, pointer, running, input_buffer, peeked,
                             call, ret, pushed, written, produced, pulled, stopped, poked>>
    /\ UNCHANGED <<data, other, amp, computers, droid>>

\* Day::part2 of day17, the steps of the brain included
BrainNext ==
    \/ brain_image
    \/ brain_line
    \/ brain_poke
    \/ brain_expect
    \/ brain_got
    \/ run

BrainSpec == BrainInit /\ [][BrainNext]_vars

\* the images of the two-computer driver
FactoryPrograms ==
    { <<I(3), I(0), I(4), I(0), I(99)>>,
      Words(<<1101, 100, -1, 4, 0>>) }

\* a caller with two computers of one factory (day05 test::complex, day07)
FactoryNext ==
    \/ reset
    \/ send_i64
    \/ manipulate_memory
    \/ maybe_i64
    \/ run
    \/ switch
    \/ build

FactorySpec == Standalone(FactoryPrograms) /\ [][FactoryNext]_vars

send_test_value == send(TestValues)

poke_any == poke(RunPokeAddresses)

get_memory_value == peek(PeekAddresses)

\* a caller that pokes, runs to the halt or pulls single outputs, and reads
\* memory (day02, the tests of day05 and day09)
RunNext ==
    \/ reset
    \/ send_test_value
    \/ poke_any
    \/ get_memory_value
    \/ run_till_halt
    \/ maybe_i64
    \/ run

RunSpec == Standalone(RunPrograms) /\ [][RunNext]_vars

\* State driven through its own methods (state.rs): push_input and one
\* next_instruction at a time, the result of the step being kept in ret

\* push_input that also sets running to Running
State_push_input_waking ==
    /\ call = Idle
    /\ Len(pushed) < MaxPush
    /\ \E value \in InValues :
           /\ input_buffer' = Append(input_buffer, value)
           /\ pushed' = Append(pushed, value)
    /\ running' = "Running"
    /\ ret' = Unit
    /\ UNCHANGED <<init_memory, memory, pointer, peeked, call, written, produced,
                   pulled, stopped, poked>>
    /\ UNCHANGED outside

State_push_input ==
    /\ call = Idle
    /\ Len(pushed) < MaxPush
    /\ \E value \in InValues :
           /\ input_buffer' = Append(input_buffer, value)
           /\ pushed' = Append(pushed, value)
    /\ ret' = Unit
    /\ UNCHANGED <<init_memory, memory, pointer, running, peeked, call, written,
                   produced, pulled, stopped, poked>>
    /\ UNCHANGED outside

State_next_instruction ==
    /\ call = Idle
    /\ \E n \in {next_instruction(VM)} :
           /\ memory' = n.st.memory
           /\ pointer' = n.st.pointer
           /\ running' = n.st.running
           /\ input_buffer' = n.st.input_buffer
           /\ produced' = IF n.tag = "Output" THEN Append(produced, n.val) ELSE produced
           /\ written' = IF n.internal = "Continue" /\ Opcode(VM) = 3
                         THEN Append(written, Cell(n.st.memory, InputTarget(VM)))
                         ELSE written
           /\ stopped' = IF n.internal = "Halted" THEN "halt"
                         ELSE IF n.internal = "Err" THEN "error"
                         ELSE stopped
           /\ call' = IF n.tag = "Panic" THEN Crashed ELSE call
           /\ ret' = R(n.tag, n.val, <<>>)
    /\ UNCHANGED <<init_memory, peeked, pushed, pulled, poked>>
    /\ UNCHANGED outside

StateNext ==
    \/ State_push_input
    \/ State_next_instruction

StateSpec == Init /\ [][StateNext]_vars

\* raw instructions for analyze_instruction: every opcode with mode digits
\* 0, 1, 2, 3 and 9 in each of the three places, and raw values that are
\* no instruction: negative ones, 0, and ones with an opcode outside 1..9, 99
DecodeCodes == {1, 2, 3, 4, 5, 6, 7, 8, 99}
DecodeModes == {0, 1, 2, 3, 9, 10, 11, 20, 30, 100, 101, 110, 200, 900}
DecodeOthers == {-199, -5, -1, 0, 10, 50, 98, 100, 1150}
DecodeImages ==
    {<<I(100 * m + c), I(0), I(0), I(0)>> : m \in DecodeModes, c \in DecodeCodes}
        \cup {<<I(r), I(0), I(0), I(0)>> : r \in DecodeOthers}

DecodeSpec == Standalone(DecodeImages) /\ [][StateNext]_vars

\* images for the jumps: JumpIfTrue and JumpIfFalse in every pair of modes,
\* with tests and targets of either sign, inside the image, at its end (4)
\* and past it (9); images whose INPUT is at address 0 or is jumped to;
\* images that end in an OUTPUT with no parameter cell
JumpTests == {0, 1, 3}
JumpTargets == {-7, -1, 0, 2, 3, 4, 9}
JumpImages ==
    {<<I(100 * m + c), I(t), I(target), I(99)>> :
        m \in {0, 1, 10, 11}, c \in {5, 6}, t \in JumpTests, target \in JumpTargets}
        \cup {Words(<<3, 0, 99>>), Words(<<1105, 1, 3, 3, 0, 99>>),
              Words(<<3, 6, 1005, 6, 0, 99, 0>>), Words(<<104>>), Words(<<4>>)}

JumpSpec == Standalone(JumpImages) /\ [][StateNext]_vars

\* a caller of the typed pulls, the demanding and the maybe_ ones
PullNext ==
    \/ reset
    \/ send_i64
    \/ expect_i64
    \/ maybe_i64
    \/ expect_bool
    \/ maybe_bool
    \/ expect_string_
    \/ maybe_string
    \/ run

PullSpec == Init /\ [][PullNext]_vars

\* a driver that takes outputs n at a time (day13), next to single pulls
\* and line reads, which leave values on the stash
TakeNext ==
    \/ reset
    \/ send_i64
    \/ maybe_take_exactly
    \/ maybe_i64
    \/ maybe_string
    \/ run

TakeSpec == Init /\ [][TakeNext]_vars

(***************************************************************************)
(* Properties.                                                             *)
(***************************************************************************)
Active == call.op \in AllOps

Last(q) == q[Len(q)]

\* v is one of 0..=127
InAsciiRange(v) == v.hi = 0 /\ v.lo >= 0 /\ v.lo <= 127

\* the pointer is on a position-mode INPUT of a VM that has not stopped
AtInput == running # "Halted" /\ InMemory(pointer, memory) /\ Cell(memory, pointer) = I(3)

\* the step under way makes the program output a value
Outputs == Len(produced') = Len(produced) + 1

\* C1: a step of an INPUT with an empty input queue writes no memory cell
\* and leaves the pointer on the INPUT; a step of an INPUT with a value
\* queued writes that value to the target address and leaves the pointer
\* two cells further.
C1_InputSuspendsThenConsumes ==
    [][ (Active /\ AtInput) =>
            IF input_buffer = <<>>
            THEN memory' = memory /\ pointer' = pointer
            ELSE /\ pointer' = PointerInc(PointerInc(pointer))
                 /\ InMemory(InputTarget(VM), memory)
                 /\ memory' = [memory EXCEPT ![InputTarget(VM).lo + 1] = Head(input_buffer)]
      ]_vars

\* C2: a pull that steps an INPUT while the input queue is empty returns,
\* and what it returns is the WaitingForInput error.
C2_PullReturnsWaitingForInput ==
    [][ (Active /\ AtInput /\ input_buffer = <<>>) =>
            (call' = Idle /\ ret'.tag = "WaitingForInput") ]_vars

\* C3: once the VM has executed HALT no pull reports an error, and nothing
\* but reset (or a poke, for memory) changes memory, pointer or running state.
C3_HaltedIsQuietAndTerminal ==
    /\ [](stopped = "halt" => ret.tag \notin StepErrors)
    /\ [][ (stopped = "halt" /\ stopped' = "halt") =>
               /\ pointer' = pointer
               /\ running' = running
               /\ (memory' = memory \/ manipulate_memory) ]_vars

\* C4: a pull made after a step has returned an execution error returns
\* StoppedAfterError.
C4_PullAfterErrorIsStoppedAfterError ==
    [][ (stopped = "error" /\ Active /\ call' = Idle) => ret'.tag = "StoppedAfterError" ]_vars

\* C5: what the pulls have handed out, followed by the stash, is what the
\* program has output, in its order; and the VM is stepped only while the
\* stash is empty.
C5_OutputsOnceInOrderStashFirst ==
    /\ pulled \o peeked = produced
    /\ Active => peeked = <<>>

C5_Witness ==
    /\ ret.tag = "Left"
    /\ Len(pulled) = 2
    /\ peeked = <<>>

\* C6: the k-th INPUT that completes stores the k-th value pushed since
\* creation or reset.
C6_InputsInEnqueueOrder ==
    /\ Len(written) <= Len(pushed)
    /\ \A k \in 1..Len(written) : written[k] = pushed[k]

C6_Witness ==
    /\ Len(written) = 2
    /\ pushed[1] # pushed[2]

\* C7: a pull served from the stash returns the stashed value, which is the
\* next output not yet handed out, takes it off the stash and leaves
\* memory, pointer, input queue, running state and the outputs untouched.
C7_StashedPullLeavesVm ==
    [][ (peeked # <<>> /\ (maybe_i64 \/ expect_i64 \/ maybe_string_or_i64)) =>
            /\ ret'.tag \in {"Some", "Ok", "Left"}
            /\ ret'.val = Head(peeked)
            /\ ret'.val = produced[Len(pulled) + 1]
            /\ peeked' = Tail(peeked)
            /\ pulled' = Append(pulled, Head(peeked))
            /\ call' = Idle
            /\ UNCHANGED <<vm, produced>> ]_vars

C7_Witness ==
    /\ ret.tag = "Left"
    /\ ret.val = I(200)
    /\ running = "Running"
    /\ produced = <<I(200)>>
    /\ pulled = produced

\* C8: when the first value maybe_string obtains is outside 0..=127 it
\* returns None with that value on the stash.
C8_NonAsciiFirstIsUnpulled ==
    [][ (call.op = "maybe_string" /\ ~call.got_string_data /\ Outputs
            /\ ~InAsciiRange(Last(produced'))) =>
            /\ call' = Idle
            /\ ret'.tag = "None"
            /\ peeked' = <<Last(produced')>> ]_vars

\* C9: when maybe_string has accumulated a character and then obtains a
\* value outside 0..=127 it returns NotAValidChar with that value.
C9_NonAsciiMidLineIsError ==
    [][ (call.op = "maybe_string" /\ call.string # <<>> /\ Outputs
            /\ ~InAsciiRange(Last(produced'))) =>
            /\ call' = Idle
            /\ ret' = R("NotAValidChar", Last(produced'), <<>>) ]_vars

\* C10: maybe_string_or_i64 returns the integer, leaving the stash empty,
\* when the next output is outside 0..=127, goes on to a line when it is an
\* ASCII character or newline, and returns None only when the VM has halted
\* with nothing output and nothing stashed.
C10_LineOrNumber ==
    [][ (call.op = "maybe_string_or_i64" /\ call.string = <<>>) =>
            /\ (Outputs /\ ~InAsciiRange(Last(produced'))) =>
                    (call' = Idle /\ ret' = R("Left", Last(produced'), <<>>) /\ peeked' = <<>>)
            /\ (Outputs /\ Last(produced') = I(10)) =>
                    (call' = Idle /\ ret' = R("Right", Zero, <<>>))
            /\ (Outputs /\ InAsciiRange(Last(produced')) /\ Last(produced') # I(10)) =>
                    (call'.op = call.op /\ call'.string = <<Last(produced').lo>>)
            /\ (call' = Idle /\ ret'.tag = "None") =>
                    (stopped' = "halt" /\ peeked' = <<>> /\ produced' = produced) ]_vars

\* a step of a maybe_take_exactly call: its start or one iteration of run()
TakeStep == maybe_take_exactly \/ (call.op \in TakeOps /\ run)

\* the values the call has been given once the step is over
TakeGot ==
    (IF call.op \in TakeOps THEN call.result ELSE <<>>)
        \o SubSeq(pulled', Len(pulled) + 1, Len(pulled'))

\* the n of the call the step belongs to
TakeN ==
    IF call.op \in TakeOps THEN call.n
    ELSE IF call'.op \in TakeOps THEN call'.n
    ELSE Len(ret'.line)

\* C11: maybe_take_exactly(n) returns Some of the next n values handed out,
\* in order, exactly when n pulls in a row yield values; it returns None when
\* a pull reports end-of-stream (the VM executes HALT) before that, and the
\* error of the pull when a pull fails.
C11_TakeExactly ==
    [][ TakeStep =>
            /\ call'.op \in TakeOps =>
                    (call'.result = TakeGot /\ Len(TakeGot) < TakeN /\ call'.n = TakeN)
            /\ Len(TakeGot) = TakeN => (call' = Idle /\ ret'.tag = "SomeVec")
            /\ (stopped = "no" /\ stopped' = "halt") => (call' = Idle /\ ret'.tag = "None")
            /\ stopped' # stopped => call' = Idle
            /\ call' = Idle =>
                    CASE ret'.tag = "SomeVec" ->
                            ret'.line = TakeGot /\ Len(TakeGot) = TakeN
                      [] ret'.tag = "None" ->
                            stopped = "no" /\ stopped' = "halt" /\ Len(TakeGot) < TakeN
                      [] OTHER ->
                            /\ ret'.tag \in StepErrors
                            /\ stopped' # "no"
                            /\ Len(pulled') = Len(pulled)
      ]_vars

\* a value taken off the stash and a fresh output, returned together
C11_Witness ==
    /\ ret.tag = "SomeVec"
    /\ ret.line = <<I(200), I(65)>>
    /\ call = Idle

\* C12: a reset, whatever state it is called in, leaves the computer as
\* IntCodeComputer::new builds it from the factory's image: memory is the
\* image, input queue and stash are empty, the pointer is 0 and the running
\* state is Running.
C12_ResetIsFresh ==
    [][ reset =>
            /\ memory' = data
            /\ init_memory' = data
            /\ input_buffer' = <<>>
            /\ peeked' = <<>>
            /\ pointer' = I(0)
            /\ running' = "Running"
            /\ [init_memory |-> init_memory', memory |-> memory', pointer |-> pointer',
                running |-> running', input_buffer |-> input_buffer', peeked |-> peeked',
                pushed |-> pushed', written |-> written', produced |-> produced',
                pulled |-> pulled', stopped |-> stopped', poked |-> poked']
                    = IntCodeComputer_new(data)
      ]_vars

\* reset can be called on a computer that has run, was poked, and holds a
\* stashed value and a pending input
C12_Witness ==
    /\ call = Idle
    /\ peeked # <<>>
    /\ input_buffer # <<>>
    /\ poked
    /\ memory # init_memory
    /\ pointer # I(0)
    /\ ENABLED reset

\* C13: two computers of one factory are isolated: whatever is done to one
\* (a step, a poke, a push, a reset) leaves the other's memory, pointer,
\* input queue and outputs as they were, nothing changes the factory's
\* image, and every build() gives a computer made of that image.
C13_Isolated ==
    /\ [](init_memory = data /\ other.init_memory = data)
    /\ [][ /\ data' = data
           /\ ~switch => other' = other
           /\ build => Whole' = IntCodeComputer_new(data) ]_vars

\* the other computer has taken input, run and changed its memory, and the
\* computer at hand is as built
C13_Witness ==
    /\ other.memory # data
    /\ other.produced # <<>>
    /\ other.pointer # I(0)
    /\ Whole = IntCodeComputer_new(data)

\* the VM executes the instruction under the pointer in the step under way
Stepping ==
    /\ Active
    /\ running # "Halted"
    /\ ~(running = "Waiting" /\ input_buffer = <<>>)
    /\ InMemory(pointer, memory)

\* the instruction under the pointer, its opcode and the mode digit of
\* its k-th parameter
Instruction == memory[pointer.lo + 1].lo
Op == Instruction % 100
ModeDigit(k) == (Instruction \div (10 ^ (k + 1))) % 10

\* the image holds the k-th parameter cell; the cell
HasParam(k) == pointer.lo + k < Len(memory)
Param(k) == memory[pointer.lo + 1 + k]

\* what a read of the non-negative address a gives: the cell, 0 when
\* nothing was ever stored there
ReadAt(a) == IF a < Len(memory) THEN memory[a + 1] ELSE Zero

\* the value of the k-th parameter: a literal (mode 1) or read through
\* memory (mode 0)
Operand(k) == IF ModeDigit(k) = 1 THEN Param(k) ELSE ReadAt(Param(k).lo)

\* C14: a read of a non-negative address never fails and gives 0 where
\* nothing was written, for get_memory_value and for a position-mode
\* operand (here the operand of OUTPUT).
C14_ReadsNeverFail ==
    /\ [][ \A addr \in PeekAddresses :
               peek({addr}) => ret' = R("Value", ReadAt(addr), <<>>) ]_vars
    /\ [][ (Stepping /\ Instruction = 4 /\ HasParam(1) /\ ~is_negative(Param(1))) =>
               produced' = Append(produced, ReadAt(Param(1).lo)) ]_vars

\* memory after the step holds v at address a and, everywhere else, what
\* it held before
WrittenAt(a, v) ==
    /\ a < Len(memory')
    /\ memory'[a + 1] = v
    /\ \A b \in 0..(Len(memory) - 1) :
          b # a => (b < Len(memory') /\ memory'[b + 1] = memory[b + 1])

\* C15: a write to a non-negative address, inside the image or past its
\* end, succeeds; the address then holds the written value and every other
\* address keeps its value.  Stated of manipulate_memory and of the write
\* operand of an immediate ADD.
C15_WritesNeverFail ==
    /\ [][ \A addr \in RunPokeAddresses :
               poke({addr}) =>
                   (ret' = Unit /\ \E value \in PokeValues : WrittenAt(addr, value)) ]_vars
    /\ [][ (Stepping /\ Instruction = 1101 /\ HasParam(3) /\ ~is_negative(Param(3))) =>
               /\ stopped' # "error"
               /\ WrittenAt(Param(3).lo, I(Param(1).lo + Param(2).lo)) ]_vars

\* C16: opcode 9 is an instruction of one operand that changes neither
\* memory nor the flow of control, and mode digit 2 addresses relative to
\* the base it sets: the image that sets the base to 2000 and adds 1 and 2
\* into relative offset 0 runs without error and halts with 3 at address
\* 2000.
C16_RelativeAddressing ==
    /\ [][ (Stepping /\ Op = 9) =>
               /\ stopped' # "error"
               /\ pointer' = PointerInc(PointerInc(pointer))
               /\ memory' = memory ]_vars
    /\ []((init_memory = RelativeWrite /\ ~poked) =>
               /\ stopped # "error"
               /\ stopped = "halt" => ReadAt(2000) = I(3))

\* C17: the quine of day09, run with no input, outputs its own sixteen
\* values in order and halts, with no error.
C17_QuineCopiesItself ==
    (init_memory = Quine /\ ~poked /\ pushed = <<>>) =>
        /\ stopped # "error"
        /\ Len(produced) <= Len(Quine)
        /\ produced = SubSeq(Quine, 1, Len(produced))
        /\ stopped = "halt" => produced = Quine

\* the step under way executes its instruction to the end, with no error
Completes == Stepping /\ stopped' = "no" /\ call' # Crashed

\* C18: ADD stores v1 + v2 and MUL stores v1 * v2 at the write operand,
\* a mode-0 operand being read through memory and a mode-1 operand taken
\* as it stands; the image of day02 runs without error and halts with 3500
\* at address 0, the image of day05 with 99 at address 4.
C18_AddMul ==
    /\ [][ (Completes /\ Op \in {1, 2}) =>
               /\ pointer' = W(0, pointer.lo + 4)
               /\ WrittenAt(Param(3).lo,
                            IF Op = 1 THEN I(Operand(1).lo + Operand(2).lo)
                            ELSE I(Operand(1).lo * Operand(2).lo)) ]_vars
    /\ []((init_memory = Day02 /\ ~poked) =>
               /\ stopped # "error"
               /\ stopped = "halt" => memory[1] = I(3500))
    /\ []((init_memory = Day05 /\ ~poked) =>
               /\ stopped # "error"
               /\ stopped = "halt" => memory[5] = I(99))

C18_Witness ==
    /\ init_memory = Day02
    /\ ~poked
    /\ stopped = "halt"
    /\ call = Idle
    /\ memory[1] = I(3500)
    /\ memory[4] = I(70)

\* C19: LessThan and Equals store 1 or 0 at the write operand;
\* JumpIfTrue and JumpIfFalse set the pointer to the second operand when
\* the test holds and go on to the next instruction otherwise; the image
\* of day05::test::complex, given x as its first input, runs without error
\* and outputs first 999 when x < 8, 1000 when x = 8, 1001 when x > 8.
C19_CompareAndJump ==
    /\ [][ (Completes /\ Op \in {7, 8}) =>
               /\ pointer' = W(0, pointer.lo + 4)
               /\ WrittenAt(Param(3).lo,
                            IF \/ (Op = 7 /\ Operand(1).lo < Operand(2).lo)
                               \/ (Op = 8 /\ Operand(1).lo = Operand(2).lo)
                            THEN I(1) ELSE I(0)) ]_vars
    /\ [][ (Completes /\ Op \in {5, 6}) =>
               /\ memory' = memory
               /\ pointer' = IF \/ (Op = 5 /\ Operand(1).lo # 0)
                                \/ (Op = 6 /\ Operand(1).lo = 0)
                             THEN Operand(2)
                             ELSE W(0, pointer.lo + 3) ]_vars
    /\ []((init_memory = Branch47 /\ ~poked) =>
               /\ stopped # "error"
               /\ (pushed # <<>> /\ produced # <<>>) =>
                      produced[1] = I(IF pushed[1].lo < 8 THEN 999
                                      ELSE IF pushed[1].lo = 8 THEN 1000
                                      ELSE 1001))

C19_Witness ==
    /\ init_memory = Branch47
    /\ ~poked
    /\ pushed = <<I(7)>>
    /\ produced = <<I(999)>>
    /\ stopped = "halt"

\* the signal the example image computes from the phases: every computer
\* outputs ten times its second input plus its first
RECURSIVE AmpSignal(_, _)
AmpSignal(p, k) == IF k = 0 THEN 0 ELSE 10 * AmpSignal(p, k - 1) + p[k]

\* is q a prefix of r
Prefix(q, r) == Len(q) <= Len(r) /\ q = SubSeq(r, 1, Len(q))

\* C20: in Amplifier::run the i-th computer is fresh and consumes first
\* phase[i] and then the output pulled from computer i-1 (0 for the
\* first), one output is pulled from each computer, and the result is the
\* output of the fifth; with the example image no call fails and the
\* result for the phases 4,3,2,1,0 is 43210.
C20_AmplifierLinear ==
    /\ amp.pc # "failed"
    /\ amp.pc = "phase" => Whole = IntCodeComputer_new(AmpExample)
    /\ amp.pc \in {"value", "expect", "fold"} =>
            /\ Prefix(written, pushed)
            /\ Prefix(pushed, <<I(amp.phase_values[amp.i]),
                                I(AmpSignal(amp.phase_values, amp.i - 1))>>)
    /\ Len(pulled) <= 1
    /\ (amp.pc = "fold" /\ call = Idle) =>
            /\ written = <<I(amp.phase_values[amp.i]),
                           I(AmpSignal(amp.phase_values, amp.i - 1))>>
            /\ pulled = <<I(AmpSignal(amp.phase_values, amp.i))>>
            /\ ret = R("Ok", pulled[1], <<>>)
    /\ amp.pc \in {"build", "phase", "value", "expect", "fold"} =>
            amp.value = I(AmpSignal(amp.phase_values, amp.i - 1))
    /\ amp.pc = "done" =>
            /\ amp.value = pulled[1]
            /\ amp.value = I(AmpSignal(amp.phase_values, 5))
            /\ amp.phase_values = <<4, 3, 2, 1, 0>> => amp.value = I(43210)

C20_Witness ==
    /\ amp.pc = "done"
    /\ amp.phase_values = <<4, 3, 2, 1, 0>>
    /\ amp.value = I(43210)

\* the computer before the i-th in the ring
RingPrev(i) == computers[IF i = 1 THEN Len(computers) ELSE i - 1]

\* the k-th value the driver gives computer j after its phase: the seed 0,
\* or the output the computer before j in the ring made just before
RingFed(j, k) ==
    IF j = 1
    THEN IF k = 1 THEN Zero ELSE computers[Len(computers)].produced[k - 1]
    ELSE computers[j - 1].produced[k]

\* C21: in Amplifier::run_recursive the five computers are visited in index
\* order, round after round, the first being given 0; each visit pushes the
\* latest output of the computer before it in the ring and pulls one
\* output; the first pull that reports a halt ends the run with the latest
\* output seen, and no call fails.  The example image with the phases
\* 9,8,7,6,5 gives 139629729.
C21_AmplifierFeedback ==
    /\ amp.pc # "failed"
    /\ amp.pc \in {"turn", "send", "pull", "got", "done"} =>
            /\ Len(computers) = 5
            /\ \A j \in 1..5 :
                  /\ computers[j].peeked = <<>>
                  /\ computers[j].pulled = computers[j].produced
                  /\ computers[j].pushed[1] = I(amp.phase_values[j])
    /\ amp.pc \in {"turn", "send"} =>
            /\ \A j \in 1..5 :
                  /\ computers[j].stopped = "no"
                  /\ Len(computers[j].produced) =
                        Len(computers[amp.i].produced) + (IF j < amp.i THEN 1 ELSE 0)
                  /\ Len(computers[j].pushed) = 1 + Len(computers[j].produced)
                  /\ \A k \in 1..Len(computers[j].produced) :
                        computers[j].pushed[k + 1] = RingFed(j, k)
            /\ amp.value = RingFed(amp.i, Len(computers[amp.i].produced) + 1)
    /\ amp.pc = "send" => Whole = computers[amp.i]
    /\ amp.pc = "pull" => pushed = Append(computers[amp.i].pushed, amp.value)
    /\ (amp.pc = "got" /\ call = Idle) =>
            /\ ret.tag \in {"Some", "None"}
            /\ ret.tag = "Some" =>
                  /\ produced = Append(computers[amp.i].produced, ret.val)
                  /\ pulled = produced
                  /\ peeked = <<>>
            /\ ret.tag = "None" =>
                  /\ stopped = "halt"
                  /\ produced = computers[amp.i].produced
    /\ amp.pc = "done" =>
            /\ ret.tag = "None"
            /\ computers[amp.i].stopped = "halt"
            /\ \A j \in 1..5 : j # amp.i => computers[j].stopped = "no"
            /\ amp.value = Last(RingPrev(amp.i).produced)
            /\ amp.phase_values = <<9, 8, 7, 6, 5>> => amp.value = I(139629729)

C21_Witness ==
    /\ amp.pc = "done"
    /\ amp.phase_values = <<9, 8, 7, 6, 5>>
    /\ amp.value = I(139629729)
    /\ Len(computers[5].produced) = 5

\* the chars of a string as the i64 values they are sent as
Codes(chars) == [j \in 1..Len(chars) |-> I(chars[j])]

\* the lines of the instructions ts, each closed by 10
RECURSIVE Emitted(_)
Emitted(ts) ==
    IF ts = <<>> THEN <<>>
    ELSE Codes(format_instruction(Head(ts)[1], Head(ts)[2], Head(ts)[3])) \o <<I(10)>>
             \o Emitted(Tail(ts))

\* the droid has sent its terminator line
Started ==
    \/ droid.pc \in {"read", "line", "done"}
    \/ (droid.pc = "failed" /\ droid.result.tag # "IncorrectDistance")

\* C22: while every instruction is accepted, what has been pushed to the VM
\* is the line "OP R W" and 10 of each instruction, in list order, then,
\* once the droid has started the program, the terminator verb and 10; and
\* until the terminator is pushed the VM has executed nothing.
C22_EmissionOrder ==
    /\ droid.pc \in {"send", "read", "line", "done"} =>
            pushed = Emitted(droid.instructions)
                        \o (IF Started THEN Codes(droid.start_verb) \o <<I(10)>> ELSE <<>>)
    /\ ~Started =>
            /\ pointer = I(0)
            /\ memory = init_memory
            /\ running = "Running"
            /\ produced = <<>>
            /\ stopped = "no"
            /\ input_buffer = pushed
    /\ (Started /\ droid.allowed_distance = 68
           /\ droid.instructions = <<<<"Not", Distance(65), "Jump">>, <<"Or", Temp, "Jump">>>>) =>
            pushed = Codes(<<78, 79, 84, 32, 65, 32, 74, 10,
                             79, 82, 32, 84, 32, 74, 10,
                             87, 65, 76, 75, 10>>)

C22_Witness ==
    /\ droid.pc = "done"
    /\ droid.result = R("Ok", I(200), <<>>)
    /\ droid.allowed_distance = 68
    /\ droid.instructions = <<<<"Not", Distance(65), "Jump">>, <<"Or", Temp, "Jump">>>>
    /\ Len(written) = 1

\* C23: WALK allows the distances A..D and RUN the distances A..I; an
\* instruction reading a distance that is no uppercase letter or lies past
\* the allowed one is rejected with IncorrectDistance and pushes nothing;
\* every other instruction is accepted and pushed.
C23_DistanceConstraint ==
    /\ [](droid.pc # "none" =>
            \/ (droid.start_verb = <<87, 65, 76, 75>> /\ droid.allowed_distance = 68)
            \/ (droid.start_verb = <<82, 85, 78>> /\ droid.allowed_distance = 73))
    /\ [][ droid_send =>
             LET read == Last(droid'.instructions)[2]
             IN  IF /\ read.tag = "Distance"
                    /\ (read.val \notin 65..90 \/ read.val > droid.allowed_distance)
                 THEN /\ droid'.pc = "failed"
                      /\ droid'.result = R("IncorrectDistance", I(read.val), <<>>)
                      /\ pushed' = pushed
                      /\ input_buffer' = input_buffer
                 ELSE /\ droid'.pc = "send"
                      /\ Len(pushed') = Len(pushed) + Len(Last(droid'.instructions)[1]) + 5
                      /\ input_buffer' = pushed' ]_vars

\* E is rejected in WALK mode after D was accepted
C23_Witness ==
    /\ droid.pc = "failed"
    /\ droid.allowed_distance = 68
    /\ droid.result = R("IncorrectDistance", I(69), <<>>)
    /\ droid.instructions = <<<<"And", Distance(68), "Temp">>, <<"Not", Distance(69), "Jump">>>>
    /\ pushed = Codes(<<65, 78, 68, 32, 68, 32, 84, 10>>)

\* the first value of q outside 0..=127, as <<v>>; <<>> when there is none
RECURSIVE FirstNumber(_)
FirstNumber(q) ==
    IF q = <<>> THEN <<>>
    ELSE IF ~InAsciiRange(Head(q)) THEN <<Head(q)>>
    ELSE FirstNumber(Tail(q))

\* the lines of the ASCII values q, the last one open or closed by 10
RECURSIVE LinesOf(_, _)
LinesOf(q, line) ==
    IF q = <<>> THEN (IF line = <<>> THEN <<>> ELSE <<line>>)
    ELSE IF Head(q) = I(10) THEN <<line>> \o LinesOf(Tail(q), <<>>)
    ELSE LinesOf(Tail(q), Append(line, Head(q).lo))

\* C24: once the terminator is sent the droid's run ends in one of three
\* ways: with the first output outside 0..=127 as its answer, whatever
\* ASCII lines came before; with IncorrectResult, the VM having halted
\* with ASCII output only, all of it collected as lines; or with the error
\* of a failed step.
C24_DroidResult ==
    /\ (droid.pc = "line" /\ call = Idle /\ FirstNumber(produced) # <<>>) =>
            ret = R("Left", FirstNumber(produced)[1], <<>>)
    /\ (droid.pc = "done" /\ droid.result.tag = "Ok") =>
            <<droid.result.val>> = FirstNumber(produced)
    /\ (droid.pc = "done" /\ droid.result.tag = "IncorrectResult") =>
            /\ stopped = "halt"
            /\ FirstNumber(produced) = <<>>
            /\ droid.messages = LinesOf(produced, <<>>)
    /\ (droid.pc = "failed" /\ Started) => stopped = "error"
    /\ (Started /\ stopped = "halt" /\ call = Idle /\ droid.pc = "line") =>
            ret.tag \in {"Left", "Right", "None"}

\* C25: feed_input patches address 0 of a VM that has executed nothing
\* yet, so that the interactive run starts from the patched image, and is
\* never applied to a VM that has halted.
C25_PatchBeforeRun ==
    [][ brain_poke =>
            /\ pointer = I(0)
            /\ produced = <<>>
            /\ memory = init_memory
            /\ running # "Halted"
            /\ memory' = [init_memory EXCEPT ![1] = I(2)] ]_vars

\* the pulls that demand a value, and their maybe_ variants
ExpectOps == {"expect_i64", "expect_bool", "expect_string_"}
MaybeOps == {"maybe_i64", "maybe_bool", "maybe_string"}

\* C26: when the VM executes HALT inside a typed pull that has been given
\* nothing yet, expect_i64, expect_bool and expect_string_ return the
\* PrematureEndOfOutput error, and maybe_i64, maybe_bool and maybe_string
\* return None.
C26_PrematureEnd ==
    [][ (stopped = "no" /\ stopped' = "halt" /\ ~call.got_string_data) =>
            /\ call' = Idle
            /\ call.op \in ExpectOps => ret' = R("PrematureEndOfOutput", Zero, <<>>)
            /\ call.op \in MaybeOps => ret' = R("None", Zero, <<>>) ]_vars

\* a demanding pull has returned PrematureEndOfOutput after an earlier pull was given a value
C26_Witness ==
    /\ ret = R("PrematureEndOfOutput", Zero, <<>>)
    /\ stopped = "halt"
    /\ call = Idle
    /\ Len(pulled) = 1
    /\ pulled = produced

EntersWaiting == running # "Waiting" /\ running' = "Waiting"
LeavesWaiting == running = "Waiting" /\ running' # "Waiting"

\* C27: running becomes Waiting only in a step that finds an INPUT (opcode 3)
\* under the pointer and the input queue empty; a Waiting VM stops being
\* Waiting only in a step that finds a pushed value in the queue; pushing
\* itself leaves running as it is, and no other operation changes it from or
\* to Waiting.
C27_WaitingTransitions ==
    [][ /\ EntersWaiting =>
               /\ State_next_instruction
               /\ running = "Running"
               /\ InMemory(pointer, memory)
               /\ Opcode(VM) = 3
               /\ input_buffer = <<>>
        /\ LeavesWaiting =>
               /\ State_next_instruction
               /\ input_buffer # <<>>
               /\ pushed # <<>>
        /\ (running = "Waiting" /\ ~State_next_instruction) => running' = "Waiting"
      ]_vars

\* the VM is Waiting at a second INPUT, having taken one value already, and
\* a value has been pushed for it
C27_Witness ==
    /\ running = "Waiting"
    /\ written # <<>>
    /\ input_buffer # <<>>

\* C28: the step taken while the VM is Waiting and the input queue is
\* empty returns the suspended result (StepResult::Waiting in run(), not
\* Continue) and leaves pointer, memory, input queue and running state as
\* they are.
C28_SuspendedStep ==
    (running = "Waiting" /\ input_buffer = <<>>) =>
        /\ next_instruction(VM).tag = "Waiting"
        /\ next_instruction(VM).st = VM

\* the step under way appends a character to the line being collected
TakesCharacter ==
    /\ call'.op = call.op
    /\ Len(call'.string) = Len(call.string) + 1

\* C29: a value v the VM produces inside maybe_string is taken as a
\* character of the line exactly when 0 <= v <= 127 and v is not 10, and the
\* character appended has code point v; a negative value or one of 2^32 or
\* more is never taken.
C29_AsciiOnly ==
    [][ (call.op \in StringOps /\ Outputs) =>
            /\ TakesCharacter <=>
                   (InAsciiRange(Last(produced')) /\ Last(produced') # I(10))
            /\ TakesCharacter => I(Last(call'.string)) = Last(produced') ]_vars

\* the mode a digit stands for, Relative included
ModeOfDigit(d) ==
    CASE d = 0 -> "Position"
      [] d = 1 -> "Immediate"
      [] d = 2 -> "Relative"
      [] OTHER -> "Illegal"

\* the raw instruction about to be decoded is r >= 0
Decoding ==
    /\ running # "Halted"
    /\ InMemory(pointer, memory)
    /\ memory[pointer.lo + 1].hi = 0
    /\ Instruction >= 0

\* C30: decoding a raw instruction r >= 0 gives the opcode r mod 100, and
\* for k = 1, 2, 3 the mode of parameter k is the k-th digit of r div 100
\* from the right: 0 Position, 1 Immediate, 2 Relative, 3..9 illegal, an
\* absent digit Position.
C30_Decode ==
    Decoding =>
        /\ analyze_instruction(I(Instruction)).tag = "Ok"
        /\ analyze_instruction(I(Instruction)).code = Instruction % 100
        /\ \A k \in 1..3 :
               ParamModeDispenser_next(analyze_instruction(I(Instruction)).modes, k)
                   = ModeOfDigit(ModeDigit(k))

\* the step under way fetches the raw instruction under the pointer
Fetching ==
    /\ State_next_instruction
    /\ running = "Running"
    /\ InMemory(pointer, memory)
    /\ memory[pointer.lo + 1].hi = 0

\* C31: a step on a negative raw instruction gives NotAnInstruction with
\* the value; a step on a raw instruction >= 0, 0 included, whose opcode
\* (value mod 100) is none of 1..9 and 99 gives IllegalOperation with the
\* opcode.
C31_NoInstruction ==
    [][ Fetching =>
            /\ Instruction < 0 =>
                   ret' = R("NotAnInstruction", I(Instruction), <<>>)
            /\ (Instruction >= 0 /\ Op \notin (1..9) \cup {99}) =>
                   ret' = R("IllegalOperation", I(Op), <<>>) ]_vars

\* the k-th parameter is in the image and, if it is an address to read
\* through, names a cell of the image
Readable(k) ==
    /\ HasParam(k)
    /\ ModeDigit(k) \in {0, 1}
    /\ ModeDigit(k) = 0 => InMemory(Param(k), memory)

\* the step under way executes an instruction that reaches its write
\* operand, and that operand is in Immediate mode
ImmediateWrite ==
    /\ State_next_instruction
    /\ Decoding
    /\ \/ Op \in {1, 2, 7, 8} /\ Readable(1) /\ Readable(2) /\ HasParam(3) /\ ModeDigit(3) = 1
       \/ Op = 3 /\ input_buffer # <<>> /\ HasParam(1) /\ ModeDigit(1) = 1

\* C32: ADD, MUL, LT, EQ and INPUT with the write parameter in Immediate
\* mode fail with IllegalParamMode, and no memory cell changes.
C32_ImmediateWrite ==
    [][ ImmediateWrite =>
            /\ ret' = R("IllegalParamMode", Zero, <<>>)
            /\ running' = "Halted"
            /\ memory' = memory ]_vars

\* ADD with mode digits 1, 0, 0 (10001) has failed with IllegalParamMode
C32_Witness ==
    /\ init_memory[1] = I(10001)
    /\ ret = R("IllegalParamMode", Zero, <<>>)
    /\ running = "Halted"
    /\ memory = init_memory

\* the jump under the pointer is taken
Taken == (Op = 5 /\ Operand(1) # Zero) \/ (Op = 6 /\ Operand(1) = Zero)

\* the step under way executes a jump whose operands can be read
Jumping ==
    /\ State_next_instruction
    /\ Decoding
    /\ Op \in {5, 6}
    /\ Readable(1)
    /\ Readable(2)

\* C33: the pointer is never negative while the VM is Running or Waiting;
\* a taken jump to a negative target fails with PointerMustNoBeNegative
\* carrying the target and does not assign the pointer; a step that
\* suspends leaves the pointer on the INPUT.
C33_PointerNonNegative ==
    /\ [](running # "Halted" => ~is_negative(pointer))
    /\ [][ (Jumping /\ Taken /\ is_negative(Operand(2))) =>
               /\ ret' = R("PointerMustNoBeNegative", Operand(2), <<>>)
               /\ running' = "Halted"
               /\ pointer' = W(0, pointer.lo + 3) ]_vars
    /\ [][ (State_next_instruction /\ running' = "Waiting") =>
               /\ pointer' = pointer
               /\ Op = 3 ]_vars

\* JumpIfFalse with a zero test and the literal target -7 has failed
C33_Witness ==
    /\ init_memory = Words(<<1106, 0, -7, 99>>)
    /\ ret = R("PointerMustNoBeNegative", I(-7), <<>>)
    /\ running = "Halted"
    /\ pointer = I(3)

\* C34: a step whose opcode fetch or parameter fetch is at or past the end
\* of the image never faults: it gives a step result or an error of the
\* VM, and the fetch does not fail for want of data.
C34_FetchPastEnd ==
    [][ (State_next_instruction /\ running # "Halted") =>
            /\ call' # Crashed
            /\ ret'.tag \notin {"Panic", "NoMoreData"} ]_vars

\* what a pull returned is an error
IsError(r) == r.tag \notin {"Unit", "Ok", "Some", "None"}

\* C35: in Amplifier::run and in Amplifier::run_recursive an error of a
\* pull ends the driver with that error; a VM that asks for more input
\* than it was given makes the pull return WaitingForInput; the driver
\* returns no value once a pull has failed.
C35_ErrorPropagation ==
    /\ [][ ((amp_fold \/ ring_got) /\ IsError(ret)) => amp'.pc = "failed" ]_vars
    /\ [][ (run /\ running' = "Waiting" /\ input_buffer' = <<>>) =>
               (call' = Idle /\ ret'.tag = "WaitingForInput") ]_vars
    /\ [](amp.pc = "done" => ~IsError(ret))

\* most steps the reference run below takes
RefSteps == 24

\* the outputs of the VM st run on until it halts, fails or finds its
\* input queue empty, after the outputs out
RECURSIVE RefRun(_, _, _)
RefRun(st, out, fuel) ==
    IF fuel = 0 \/ st.running = "Halted" \/ (st.running = "Waiting" /\ st.input_buffer = <<>>)
    THEN out
    ELSE LET n == next_instruction(st)
         IN  IF n.tag = "Panic" THEN out
             ELSE RefRun(n.st, IF n.tag = "Output" THEN Append(out, n.val) ELSE out, fuel - 1)

\* the outputs of the program when every value pushed so far is in the
\* queue before the first step
PushedFirst ==
    RefRun([memory |-> init_memory, pointer |-> Pointer_new(0), running |-> "Running",
            input_buffer |-> pushed], <<>>, RefSteps)

IsPrefix(a, b) == Len(a) <= Len(b) /\ a = SubSeq(b, 1, Len(a))

\* C36: a pull that finds the input queue empty returns WaitingForInput and
\* loses no input, no output and no progress; whenever the values are
\* pushed, the outputs are those of the run that had them all from the
\* start.
C36_InputTiming ==
    /\ [][ (run /\ running' = "Waiting" /\ input_buffer' = <<>>) =>
               /\ call' = Idle
               /\ ret'.tag = "WaitingForInput"
               /\ produced' = produced
               /\ peeked' = peeked ]_vars
    /\ [](IsPrefix(produced, PushedFirst))
    /\ []((running = "Halted" \/ (running = "Waiting" /\ input_buffer = <<>>)) =>
              produced = PushedFirst)

\* C37: the stash never holds more than one value; it comes to hold a
\* value only when maybe_string, the stash being empty, takes from the VM a
\* first value that is no character and puts that one value back.
C37_StashAtMostOne ==
    /\ [](Len(peeked) <= 1)
    /\ [][ (peeked' # peeked /\ peeked' # <<>>) =>
               /\ peeked = <<>>
               /\ call.op \in {"maybe_string", "expect_string_"}
               /\ call.string = <<>>
               /\ Outputs
               /\ peeked' = <<Last(produced')>>
               /\ call' = Idle ]_vars

\* maybe_i64 has taken the output 65 and maybe_string, called next, has
\* stashed the 200 that followed it
C37_Witness ==
    /\ peeked = <<I(200)>>
    /\ produced = <<I(65), I(200)>>
    /\ pulled = <<I(65)>>
    /\ ret = R("None", Zero, <<>>)
    /\ call = Idle

\* the step under way executes HALT inside a maybe_take_exactly that has
\* collected some of its n values
HaltsPartway ==
    /\ call.op \in TakeOps
    /\ stopped = "no"
    /\ stopped' = "halt"
    /\ Len(call.result) > 0
    /\ Len(call.result) < call.n

\* C38: when the VM halts after maybe_take_exactly(n) has collected k of
\* its n values, 0 < k < n, the call returns None, the k values stay
\* consumed and do not go onto the stash; no later call returns a value.
C38_PartialTakeIsDropped ==
    /\ [][ HaltsPartway =>
               /\ call' = Idle
               /\ ret' = R("None", Zero, <<>>)
               /\ peeked' = <<>>
               /\ pulled' = pulled
               /\ SubSeq(pulled, Len(pulled) - Len(call.result) + 1, Len(pulled)) = call.result
       ]_vars
    /\ [][ (stopped = "halt" /\ stopped' = "halt" /\ peeked = <<>>) =>
               /\ peeked' = <<>>
               /\ pulled' = pulled
               /\ \/ ret' = ret
                  \/ ret' = Unit
                  \/ ret' = R("NotRunning", Zero, <<>>)
                  \/ ret' = R("SomeVec", Zero, <<>>) ]_vars

\* maybe_take_exactly(2) has returned None on a VM that gave 65 and then
\* halted: the 65 was handed out and is not on the stash
C38_Witness ==
    /\ ret = R("None", Zero, <<>>)
    /\ stopped = "halt"
    /\ produced = <<I(65)>>
    /\ pulled = <<I(65)>>
    /\ peeked = <<>>
    /\ call = Idle

\* C39: inside maybe_string, the newline 10 ends the call with Some of the
\* characters collected, the empty line when there are none; a HALT after
\* at least one character ends it with Some of those characters; None is
\* returned only on a HALT before any value or on a first value outside
\* 0..=127, which goes onto the stash.
C39_LineEndCases ==
    [][ (run /\ call.op = "maybe_string") =>
            /\ (Outputs /\ Last(produced') = I(10)) =>
                   (call' = Idle /\ ret' = R("SomeString", Zero, call.string))
            /\ (stopped = "no" /\ stopped' = "halt" /\ call.string # <<>>) =>
                   (call' = Idle /\ ret' = R("SomeString", Zero, call.string))
            /\ (call' = Idle /\ ret'.tag = "None") =>
                   /\ call.string = <<>>
                   /\ \/ stopped = "no" /\ stopped' = "halt" /\ produced' = produced
                      \/ /\ Outputs
                         /\ ~InAsciiRange(Last(produced'))
                         /\ peeked' = <<Last(produced')>> ]_vars

\* maybe_string has returned the empty line for an output of just 10
C39_Witness ==
    /\ ret = R("SomeString", Zero, <<>>)
    /\ produced = <<I(10)>>
    /\ pulled = <<I(10)>>
    /\ call = Idle

====
